---- MODULE Spec2Model ----
(***************************************************************************)
(* Model of the Pinecone API client (src/src/client.ts): the per-instance  *)
(* index-host cache, the two request planes, and the classification of     *)
(* HTTP responses performed by PineconeClientImpl.request.                 *)
(***************************************************************************)
EXTENDS Integers, Sequences, FiniteSets, TLC

VARIABLES credentials, indexHostCache, calls, prior, stale, instances, handled

vars == <<credentials, indexHostCache, calls, prior, stale, instances, handled>>

(***************************************************************************)
(* Bounds of the model.                                                    *)
(***************************************************************************)
\* longest Retry-After header value that is enumerated
MaxHeaderLen == 2
\* number of facade calls that may overlap in SpecConcurrent
MaxInFlight == 2
\* number of clients that may exist at once in SpecInstances
MaxInstances == 2

(***************************************************************************)
(* JavaScript values.  Every value is a record tagged by its type, so that *)
(* undefined, null, "" and a missing property stay distinct.               *)
(***************************************************************************)
JUndefined == [t |-> "undefined"]
JNull == [t |-> "null"]
JNaN == [t |-> "NaN"]
JStr(s) == [t |-> "string", v |-> s]
JNum(n) == [t |-> "number", v |-> n]
JBool(b) == [t |-> "boolean", v |-> b]
JObj(f) == [t |-> "object", f |-> f]
JArr(s) == [t |-> "array", v |-> s]
\* the template literal `API error: ${response.status}`
JTemplate(prefix, n) == [t |-> "string", v |-> prefix, arg |-> n]

\* ToBoolean, as used by `!x`, `x ? a : b`, `a || b` and `if (x)`
Truthy(x) ==
  CASE x.t = "undefined" -> FALSE
    [] x.t = "null" -> FALSE
    [] x.t = "NaN" -> FALSE
    [] x.t = "string" -> x.v # ""
    [] x.t = "number" -> x.v # 0
    [] x.t = "boolean" -> x.v
    [] OTHER -> TRUE

\* a || b
Or(a, b) == IF Truthy(a) THEN a ELSE b

\* o.k throws a TypeError when o is undefined or null
Throws(o) == o.t \in {"undefined", "null"}

\* o.k for an o on which property access does not throw
Get(o, k) ==
  IF o.t = "object" /\ k \in DOMAIN o.f THEN o.f[k] ELSE JUndefined

\* o?.k
OptGet(o, k) == IF Throws(o) THEN JUndefined ELSE Get(o, k)

(***************************************************************************)
(* Response bodies and JSON.parse.  A body is the text the server sent;    *)
(* JSON.parse either throws a SyntaxError or yields the value the text     *)
(* denotes.                                                                *)
(***************************************************************************)
HostA == "idx-a.svc.pinecone.io"
HostB == "idx-b.svc.pinecone.io"

BodyEmpty == ""
BodyGarbage == "<html>Bad Gateway</html>"
BodyNull == "null"
BodyEmptyObject == "{}"
BodyHostA == "{\"name\":\"x\",\"host\":\"idx-a.svc.pinecone.io\"}"
BodyHostB == "{\"name\":\"x\",\"host\":\"idx-b.svc.pinecone.io\"}"
BodyHostEmpty == "{\"name\":\"x\",\"host\":\"\"}"
BodyIndexes == "{\"indexes\":[{\"name\":\"x\"}]}"
BodyErrNested == "{\"error\":{\"message\":\"boom\"}}"
BodyErrTop == "{\"message\":\"top\"}"
BodyErrBoth == "{\"error\":{\"message\":\"boom\"},\"message\":\"top\"}"
BodyErrNestedEmpty == "{\"error\":{\"message\":\"\"},\"message\":\"top\"}"
BodyErrAllEmpty == "{\"error\":{\"message\":\"\"},\"message\":\"\"}"
BodyErrFlat == "{\"error\":\"flat\"}"
BodyErrNullNested == "{\"error\":null,\"message\":\"top\"}"
BodyErrCode == "{\"error\":{\"code\":\"NOT_FOUND\"},\"status\":404}"
BodyMatches == "{\"matches\":[{\"id\":\"v1\",\"score\":1}],\"namespace\":\"\"}"
\* pages of /vectors/list: one with a next token, the last one, and one
\* whose next token is the empty string
BodyPage ==
  "{\"vectors\":[{\"id\":\"v1\"},{\"id\":\"v2\"}],\"pagination\":{\"next\":\"n1\"}}"
BodyLastPage == "{\"vectors\":[{\"id\":\"v3\"}]}"
BodyEmptyNext == "{\"vectors\":[],\"pagination\":{\"next\":\"\"}}"

SyntaxError == [name |-> "SyntaxError", message |-> JStr("Unexpected token")]

\* JSON.parse(text): [ok |-> TRUE, value |-> v] or [ok |-> FALSE] (SyntaxError)
JSONParse(text) ==
  CASE text = BodyEmpty -> [ok |-> FALSE]
    [] text = BodyGarbage -> [ok |-> FALSE]
    [] text = BodyNull -> [ok |-> TRUE, value |-> JNull]
    [] text = BodyEmptyObject -> [ok |-> TRUE, value |-> JObj(<<>>)]
    [] text = BodyHostA ->
         [ok |-> TRUE, value |-> JObj([name |-> JStr("x"), host |-> JStr(HostA)])]
    [] text = BodyHostB ->
         [ok |-> TRUE, value |-> JObj([name |-> JStr("x"), host |-> JStr(HostB)])]
    [] text = BodyHostEmpty ->
         [ok |-> TRUE, value |-> JObj([name |-> JStr("x"), host |-> JStr("")])]
    [] text = BodyIndexes ->
         [ok |-> TRUE,
          value |-> JObj([indexes |-> JArr(<<JObj([name |-> JStr("x")])>>)])]
    [] text = BodyErrNested ->
         [ok |-> TRUE, value |-> JObj([error |-> JObj([message |-> JStr("boom")])])]
    [] text = BodyErrTop ->
         [ok |-> TRUE, value |-> JObj([message |-> JStr("top")])]
    [] text = BodyErrBoth ->
         [ok |-> TRUE,
          value |-> JObj([error |-> JObj([message |-> JStr("boom")]),
                          message |-> JStr("top")])]
    [] text = BodyErrNestedEmpty ->
         [ok |-> TRUE,
          value |-> JObj([error |-> JObj([message |-> JStr("")]),
                          message |-> JStr("top")])]
    [] text = BodyErrAllEmpty ->
         [ok |-> TRUE,
          value |-> JObj([error |-> JObj([message |-> JStr("")]),
                          message |-> JStr("")])]
    [] text = BodyErrFlat ->
         [ok |-> TRUE, value |-> JObj([error |-> JStr("flat")])]
    [] text = BodyErrNullNested ->
         [ok |-> TRUE, value |-> JObj([error |-> JNull, message |-> JStr("top")])]
    [] text = BodyErrCode ->
         [ok |-> TRUE,
          value |-> JObj([error |-> JObj([code |-> JStr("NOT_FOUND")]),
                          status |-> JNum(404)])]
    [] text = BodyMatches ->
         [ok |-> TRUE,
          value |-> JObj([matches |-> JArr(<<JObj([id |-> JStr("v1"),
                                                   score |-> JNum(1)])>>),
                          namespace |-> JStr("")])]
    [] text = BodyPage ->
         [ok |-> TRUE,
          value |-> JObj([vectors |-> JArr(<<JObj([id |-> JStr("v1")]),
                                             JObj([id |-> JStr("v2")])>>),
                          pagination |-> JObj([next |-> JStr("n1")])])]
    [] text = BodyLastPage ->
         [ok |-> TRUE,
          value |-> JObj([vectors |-> JArr(<<JObj([id |-> JStr("v3")])>>)])]
    [] text = BodyEmptyNext ->
         [ok |-> TRUE,
          value |-> JObj([vectors |-> JArr(<<>>),
                          pagination |-> JObj([next |-> JStr("")])])]

BodyTexts ==
  {BodyEmpty, BodyGarbage, BodyNull, BodyEmptyObject, BodyHostA, BodyHostB,
   BodyHostEmpty, BodyIndexes, BodyErrNested, BodyErrTop, BodyErrBoth,
   BodyErrNestedEmpty, BodyErrAllEmpty, BodyErrFlat, BodyErrNullNested,
   BodyErrCode, BodyMatches}

\* A response body: text that response.text() resolves to, or a stream
\* whose read rejects.
BodyOf(text) == [readable |-> TRUE, text |-> text]
BodyBroken == [readable |-> FALSE]
Bodies == {BodyOf(t) : t \in BodyTexts} \cup {BodyBroken}

(***************************************************************************)
(* parseInt(s, 10) on a header value, a sequence of characters.            *)
(***************************************************************************)
HeaderChars == {"0", "3", "7", "-", "x"}

IsDigit(c) == c \in {"0", "1", "2", "3", "4", "5", "6", "7", "8", "9"}

DigitVal(c) ==
  CASE c = "0" -> 0 [] c = "1" -> 1 [] c = "2" -> 2 [] c = "3" -> 3
    [] c = "4" -> 4 [] c = "5" -> 5 [] c = "6" -> 6 [] c = "7" -> 7
    [] c = "8" -> 8 [] c = "9" -> 9

\* the value of the longest prefix of digits of s, continuing from acc;
\* seen tells whether a digit has been consumed
RECURSIVE ScanDigits(_, _, _)
ScanDigits(s, acc, seen) ==
  IF s # <<>> /\ IsDigit(Head(s))
  THEN ScanDigits(Tail(s), acc * 10 + DigitVal(Head(s)), TRUE)
  ELSE IF seen THEN JNum(acc) ELSE JNaN

Negate(x) == IF x.t = "number" THEN JNum(0 - x.v) ELSE x

parseInt(s) ==
  IF s # <<>> /\ Head(s) = "-" THEN Negate(ScanDigits(Tail(s), 0, FALSE))
  ELSE ScanDigits(s, 0, FALSE)

RECURSIVE SeqsUpTo(_, _)
SeqsUpTo(S, n) ==
  IF n = 0 THEN {<<>>}
  ELSE LET shorter == SeqsUpTo(S, n - 1)
       IN  shorter \cup {Append(q, c) : q \in shorter, c \in S}

\* response.headers.get('Retry-After'): null when the header is absent,
\* else its value
HeaderAbsent == [present |-> FALSE]
HeaderOf(s) == [present |-> TRUE, chars |-> s]
RetryAfterHeaders ==
  {HeaderAbsent} \cup {HeaderOf(s) : s \in SeqsUpTo(HeaderChars, MaxHeaderLen)}

(***************************************************************************)
(* HTTP responses.  fetch either rejects (transport failure) or resolves   *)
(* to a response with a status, headers and a body.                        *)
(***************************************************************************)
Statuses == {200, 201, 202, 204, 304, 400, 401, 403, 404, 429, 500, 503}

FetchRejected == [kind |-> "rejected"]
Response(status, retryAfter, body) ==
  [kind |-> "response", status |-> status, retryAfter |-> retryAfter, body |-> body]

\* every response the classification is checked on
AllResponses ==
  {FetchRejected} \cup
  {Response(st, h, b) : st \in Statuses, h \in RetryAfterHeaders, b \in Bodies}

\* the responses the facade's callers are answered with
WireResponses ==
  {FetchRejected,
   Response(429, HeaderAbsent, BodyOf(BodyEmpty)),
   Response(401, HeaderAbsent, BodyOf(BodyErrTop)),
   Response(404, HeaderAbsent, BodyOf(BodyErrNested)),
   Response(500, HeaderAbsent, BodyOf(BodyGarbage)),
   Response(204, HeaderAbsent, BodyOf(BodyEmpty)),
   Response(202, HeaderAbsent, BodyOf(BodyHostA)),
   Response(200, HeaderAbsent, BodyOf(BodyEmpty)),
   Response(200, HeaderAbsent, BodyOf(BodyGarbage)),
   Response(200, HeaderAbsent, BodyOf(BodyEmptyObject)),
   Response(200, HeaderAbsent, BodyOf(BodyHostA)),
   Response(200, HeaderAbsent, BodyOf(BodyHostB)),
   Response(200, HeaderAbsent, BodyOf(BodyHostEmpty)),
   Response(200, HeaderAbsent, BodyOf(BodyIndexes))}

\* response.ok
ResponseOk(r) == r.status >= 200 /\ r.status <= 299

(***************************************************************************)
(* Errors, as the values their constructors are called with.               *)
(***************************************************************************)
RateLimitError(message, retryAfter) ==
  [name |-> "RateLimitError", message |-> JStr(message), retryAfter |-> retryAfter]
AuthenticationError(message) ==
  [name |-> "AuthenticationError", message |-> JStr(message)]
PineconeApiError(message, status) ==
  [name |-> "PineconeApiError", message |-> message, status |-> status]
\* the rejection of fetch() or of response.text()
NetworkFailure == [name |-> "NetworkFailure", message |-> JStr("fetch failed")]
\* reading a property of undefined or null
TypeError ==
  [name |-> "TypeError", message |-> JStr("Cannot read properties of undefined")]

NoKeyMessage == "No API key provided. Include X-Pinecone-Api-Key header."
AuthFailedMessage == "Authentication failed. Check your API key."
RateLimitMessage == "Rate limit exceeded"

\* the outcome of an async function: a value returned or an error thrown;
\* bodyRead records whether response.text() was called
Returned(v, read) == [ok |-> TRUE, value |-> v, bodyRead |-> read]
Thrown(e, read) == [ok |-> FALSE, error |-> e, bodyRead |-> read]

(***************************************************************************)
(* PineconeClientImpl.getAuthHeaders and PineconeClientImpl.request        *)
(***************************************************************************)
CONTROL_PLANE_URL == "api.pinecone.io"
API_VERSION == "2025-01"
DefaultRetryAfter == 60

\* mutation of getAuthHeaders: the key is not checked
getAuthHeadersUnchecked(creds) ==
  Returned([ApiKey |-> creds.apiKey,
            ContentType |-> "application/json",
            XPineconeApiVersion |-> API_VERSION], FALSE)

\* mutation of getAuthHeaders: the API-version header is left out
getAuthHeadersWithoutVersion(creds) ==
  IF ~Truthy(creds.apiKey)
  THEN Thrown(AuthenticationError(NoKeyMessage), FALSE)
  ELSE Returned([ApiKey |-> creds.apiKey,
                 ContentType |-> "application/json"], FALSE)

getAuthHeaders(creds) ==
  IF ~Truthy(creds.apiKey)
  THEN Thrown(AuthenticationError(NoKeyMessage), FALSE)
  ELSE Returned([ApiKey |-> creds.apiKey,
                 ContentType |-> "application/json",
                 XPineconeApiVersion |-> API_VERSION], FALSE)

\* mutation of RetryAfterSeconds: the header is never consulted
RetryAfterSecondsIgnoringHeader(h) == JNum(DefaultRetryAfter)

\* retryAfter ? parseInt(retryAfter, 10) : 60
RetryAfterSeconds(h) ==
  IF h.present /\ h.chars # <<>> THEN parseInt(h.chars) ELSE JNum(DefaultRetryAfter)

\* mutation of ErrorMessage: the top-level field is tried first
ErrorMessageTopFirst(errorJson, fallback) ==
  Or(Or(Get(errorJson, "message"), OptGet(Get(errorJson, "error"), "message")),
     fallback)

\* errorJson.error?.message || errorJson.message || message
ErrorMessage(errorJson, fallback) ==
  Or(Or(OptGet(Get(errorJson, "error"), "message"), Get(errorJson, "message")),
     fallback)

\* the body of `if (!response.ok)`
ApiErrorOf(r) ==
  IF ~r.body.readable THEN Thrown(NetworkFailure, TRUE)
  ELSE LET fallback == JTemplate("API error: ", r.status)
           parsed == JSONParse(r.body.text)
           message == IF ~parsed.ok \/ Throws(parsed.value) THEN fallback
                      ELSE ErrorMessage(parsed.value, fallback)
       IN  Thrown(PineconeApiError(message, r.status), TRUE)

\* mutation of ParsedBodyOf: an empty text is handed to JSON.parse
ParsedBodyOfParsingEmpty(r) ==
  IF ~r.body.readable THEN Thrown(NetworkFailure, TRUE)
  ELSE LET parsed == JSONParse(r.body.text)
       IN  IF parsed.ok THEN Returned(parsed.value, TRUE)
           ELSE Thrown(SyntaxError, TRUE)

\* mutation of ParsedBodyOf: a parse failure is reported as an API error
ParsedBodyOfWrappingParseFailure(r) ==
  IF ~r.body.readable THEN Thrown(NetworkFailure, TRUE)
  ELSE IF r.body.text = "" THEN Returned(JUndefined, TRUE)
  ELSE LET parsed == JSONParse(r.body.text)
       IN  IF parsed.ok THEN Returned(parsed.value, TRUE)
           ELSE Thrown(PineconeApiError(JStr("Invalid JSON"), r.status), TRUE)

\* the tail of request: the body of a 2xx response other than 202 and 204
ParsedBodyOf(r) ==
  IF ~r.body.readable THEN Thrown(NetworkFailure, TRUE)
  ELSE IF r.body.text = "" THEN Returned(JUndefined, TRUE)
  ELSE LET parsed == JSONParse(r.body.text)
       IN  IF parsed.ok THEN Returned(parsed.value, TRUE)
           ELSE Thrown(SyntaxError, TRUE)

\* mutation of requestOutcome: 401 and 403 are classified after the other
\* non-2xx statuses, so their body is read and reported
requestOutcomeAuthLate(r) ==
  IF r.kind = "rejected" THEN Thrown(NetworkFailure, FALSE)
  ELSE IF r.status = 429
       THEN Thrown(RateLimitError(RateLimitMessage, RetryAfterSeconds(r.retryAfter)),
                   FALSE)
  ELSE IF ~ResponseOk(r) THEN ApiErrorOf(r)
  ELSE IF r.status = 401 \/ r.status = 403
       THEN Thrown(AuthenticationError(AuthFailedMessage), FALSE)
  ELSE IF r.status = 202 \/ r.status = 204 THEN Returned(JUndefined, FALSE)
  ELSE ParsedBodyOf(r)

\* mutation of requestOutcome: 202 is not special-cased
requestOutcomeParsing202(r) ==
  IF r.kind = "rejected" THEN Thrown(NetworkFailure, FALSE)
  ELSE IF r.status = 429
       THEN Thrown(RateLimitError(RateLimitMessage, RetryAfterSeconds(r.retryAfter)),
                   FALSE)
  ELSE IF r.status = 401 \/ r.status = 403
       THEN Thrown(AuthenticationError(AuthFailedMessage), FALSE)
  ELSE IF ~ResponseOk(r) THEN ApiErrorOf(r)
  ELSE IF r.status = 204 THEN Returned(JUndefined, FALSE)
  ELSE ParsedBodyOf(r)

\* mutation of requestOutcome: fetch is awaited inside a try whose catch
\* reports the rejection as an API error
requestOutcomeWrappingRejection(r) ==
  IF r.kind = "rejected"
  THEN Thrown(PineconeApiError(NetworkFailure.message, 0), FALSE)
  ELSE IF r.status = 429
       THEN Thrown(RateLimitError(RateLimitMessage, RetryAfterSeconds(r.retryAfter)),
                   FALSE)
  ELSE IF r.status = 401 \/ r.status = 403
       THEN Thrown(AuthenticationError(AuthFailedMessage), FALSE)
  ELSE IF ~ResponseOk(r) THEN ApiErrorOf(r)
  ELSE IF r.status = 202 \/ r.status = 204 THEN Returned(JUndefined, FALSE)
  ELSE ParsedBodyOf(r)

\* request, from the moment fetch settles with r
requestOutcome(r) ==
  IF r.kind = "rejected" THEN Thrown(NetworkFailure, FALSE)
  ELSE IF r.status = 429
       THEN Thrown(RateLimitError(RateLimitMessage, RetryAfterSeconds(r.retryAfter)),
                   FALSE)
  ELSE IF r.status = 401 \/ r.status = 403
       THEN Thrown(AuthenticationError(AuthFailedMessage), FALSE)
  ELSE IF ~ResponseOk(r) THEN ApiErrorOf(r)
  ELSE IF r.status = 202 \/ r.status = 204 THEN Returned(JUndefined, FALSE)
  ELSE ParsedBodyOf(r)

(***************************************************************************)
(* The operations of the PineconeClient interface.  plane: which base      *)
(* address the operation's own request goes to; method and path: the       *)
(* request it builds; ret: what it does with the request's result          *)
(* ("value": returns it, "void": awaits it and returns nothing, else the   *)
(* envelope field it unwraps with `response.field || []`); keyed: whether  *)
(* the operation takes an identifier.                                      *)
(***************************************************************************)
Op(plane, method, path, ret, keyed) ==
  [plane |-> plane, method |-> method, path |-> path, ret |-> ret, keyed |-> keyed]

Operations ==
  [listIndexes |-> Op("control", "GET", "/indexes", "indexes", FALSE),
   createIndex |-> Op("control", "POST", "/indexes", "value", FALSE),
   describeIndex |-> Op("control", "GET", "/indexes/{}", "value", TRUE),
   deleteIndex |-> Op("control", "DELETE", "/indexes/{}", "void", TRUE),
   configureIndex |-> Op("control", "PATCH", "/indexes/{}", "value", TRUE),
   listCollections |-> Op("control", "GET", "/collections", "collections", FALSE),
   createCollection |-> Op("control", "POST", "/collections", "value", FALSE),
   describeCollection |-> Op("control", "GET", "/collections/{}", "value", TRUE),
   deleteCollection |-> Op("control", "DELETE", "/collections/{}", "void", TRUE),
   listBackups |-> Op("control", "GET", "/indexes/{}/backups", "backups", TRUE),
   createBackup |-> Op("control", "POST", "/indexes/{}/backups", "value", TRUE),
   describeBackup |-> Op("control", "GET", "/backups/{}", "value", TRUE),
   deleteBackup |-> Op("control", "DELETE", "/backups/{}", "void", TRUE),
   createIndexFromBackup |-> Op("control", "POST", "/indexes/from_backup", "value", FALSE),
   listRestoreJobs |-> Op("control", "GET", "/restore_jobs", "restore_jobs", FALSE),
   describeRestoreJob |-> Op("control", "GET", "/restore_jobs/{}", "value", TRUE),
   generateEmbeddings |-> Op("control", "POST", "/embed", "value", FALSE),
   rerankDocuments |-> Op("control", "POST", "/rerank", "value", FALSE),
   listModels |-> Op("control", "GET", "/models", "models", FALSE),
   describeModel |-> Op("control", "GET", "/models/{}", "value", TRUE),
   upsertVectors |-> Op("data", "POST", "/vectors/upsert", "value", TRUE),
   queryVectors |-> Op("data", "POST", "/query", "value", TRUE),
   fetchVectors |-> Op("data", "GET", "/vectors/fetch?ids=", "value", TRUE),
   updateVector |-> Op("data", "POST", "/vectors/update", "void", TRUE),
   deleteVectors |-> Op("data", "POST", "/vectors/delete", "void", TRUE),
   listVectorIds |-> Op("data", "GET", "/vectors/list", "value", TRUE),
   describeIndexStats |-> Op("data", "POST", "/describe_index_stats", "value", TRUE),
   listNamespaces |-> Op("data", "GET", "/namespaces", "namespaces", TRUE),
   describeNamespace |-> Op("data", "GET", "/namespaces/{}", "value", TRUE),
   deleteNamespace |-> Op("data", "DELETE", "/namespaces/{}", "void", TRUE),
   startImport |-> Op("data", "POST", "/bulk/imports", "value", TRUE),
   listImports |-> Op("data", "GET", "/bulk/imports", "imports", TRUE),
   describeImport |-> Op("data", "GET", "/bulk/imports/{}", "value", TRUE),
   cancelImport |-> Op("data", "POST", "/bulk/imports/{}/cancel", "void", TRUE)]

\* testConnection is listIndexes inside a try/catch
TestConnection == "testConnection"

OpNames == DOMAIN Operations
ControlOps == {o \in OpNames : Operations[o].plane = "control"}
DataOps == {o \in OpNames : Operations[o].plane = "data"}

\* index names (and the other identifiers operations are keyed by)
Names == {"a", "b"}
NoName == "-"
KeysOf(o) ==
  IF o = TestConnection THEN {NoName}
  ELSE IF o = "listBackups" THEN Names \cup {NoName}
  ELSE IF Operations[o].keyed THEN Names ELSE {NoName}

(***************************************************************************)
(* Requests, as handed to fetch.                                           *)
(***************************************************************************)
\* `${x}` inside a template literal
TemplateString(x) == IF x.t = "string" THEN x.v ELSE x.t

\* listBackups(indexName?) lists every backup when no index is named
PathOf(o, key) ==
  IF o = "listBackups" /\ key = NoName THEN "/backups" ELSE Operations[o].path

\* the request argument of an operation whose arguments are left open, and
\* the body of its request
NoArgs == [t |-> "unspecified"]
NoBody == [t |-> "unspecified"]
\* the query string of a request whose endpoint has none
NoQuery == <<>>

\* JSON.stringify(request): properties whose value is undefined are omitted
JSONStringify(args) ==
  IF args = NoArgs THEN NoBody
  ELSE JObj([k \in {x \in DOMAIN args.f : args.f[x] # JUndefined} |-> args.f[k]])

Request(authority, o, key, headers) ==
  [authority |-> authority, method |-> Operations[o].method,
   path |-> PathOf(o, key), key |-> key, headers |-> headers, body |-> NoBody,
   query |-> NoQuery]

\* fetch(url, {...options, body: JSON.stringify(request)})
WithBody(req, args) == [req EXCEPT !.body = JSONStringify(args)]

\* the page tokens a caller of listVectorIds passes
PageTokens == {JUndefined, JStr(""), JStr("t1"), JStr("a b+c=")}

\* URLSearchParams.toString(), on the values appended here: a space becomes
\* "+", and "+" and "=" are percent-encoded
URLEncode(text) ==
  CASE text = "a b+c=" -> "a+b%2Bc%3D"
    [] OTHER -> text

\* String(x) for a parameter value, then its serialisation
ParamText(x) == IF x.t = "string" THEN URLEncode(x.v) ELSE x.v

\* mutation of ListQuery: the page token is not appended
ListQueryWithoutToken(args) ==
  [k \in {x \in {"namespace", "prefix", "limit"} :
            Truthy(OptGet(args, x))} |-> ParamText(args.f[k])]

\* listVectorIds: one params.append per property of the request that is
\* truthy; an empty query string leaves the endpoint as it is
ListQuery(args) ==
  [k \in {x \in {"namespace", "prefix", "limit", "paginationToken"} :
            Truthy(OptGet(args, x))} |-> ParamText(args.f[k])]

\* what an operation puts of its request argument into the fetch call
WithArgs(req, o, args) ==
  IF args = NoArgs THEN req
  ELSE IF o = "listVectorIds" THEN [req EXCEPT !.query = ListQuery(args)]
  ELSE WithBody(req, args)

\* controlPlaneRequest: `${CONTROL_PLANE_URL}${endpoint}`
ControlRequest(o, key, headers) == Request(CONTROL_PLANE_URL, o, key, headers)

\* mutation of DataRequest: the request is built by controlPlaneRequest
DataRequestOnControlPlane(host, o, key, headers) ==
  Request(CONTROL_PLANE_URL, o, key, headers)

\* dataPlaneRequest: `https://${host}${endpoint}`
DataRequest(host, o, key, headers) ==
  Request(TemplateString(host), o, key, headers)

(***************************************************************************)
(* The index-host cache: Map<string, string>.                              *)
(***************************************************************************)
Absent == [t |-> "absent"]
EmptyCache == [k \in Names |-> Absent]

\* Map.has
CacheHas(cache, k) == cache[k] # Absent
\* Map.get: undefined when there is no entry
CacheGet(cache, k) == IF CacheHas(cache, k) THEN cache[k] ELSE JUndefined
\* this.indexHostCache.set(indexName, index.host)
CacheSet(cache, k, host) == [cache EXCEPT ![k] = host]
\* this.indexHostCache.delete(indexName)
CacheDelete(cache, k) == [cache EXCEPT ![k] = Absent]

(***************************************************************************)
(* What an operation makes of the outcome of its request.                  *)
(***************************************************************************)
ConnectedMessage == "Successfully connected to Pinecone"

\* `response.field || []`, `return request(...)`, `await request(...)`
Unwrap(o, out) ==
  IF ~out.ok THEN out
  ELSE IF Operations[o].ret = "value" THEN out
  ELSE IF Operations[o].ret = "void" THEN Returned(JUndefined, out.bodyRead)
  ELSE IF Throws(out.value) THEN Thrown(TypeError, out.bodyRead)
  ELSE Returned(Or(Get(out.value, Operations[o].ret), JArr(<<>>)), out.bodyRead)

\* mutation of testConnection: no try/catch around listIndexes
testConnectionRethrowing(out) ==
  LET listed == Unwrap("listIndexes", out)
  IN  IF listed.ok
      THEN Returned(JObj([connected |-> JBool(TRUE),
                          message |-> JStr(ConnectedMessage)]), out.bodyRead)
      ELSE listed

\* testConnection: try { await this.listIndexes() } catch (error) { ... }
testConnection(out) ==
  LET listed == Unwrap("listIndexes", out)
  IN  IF listed.ok
      THEN Returned(JObj([connected |-> JBool(TRUE),
                          message |-> JStr(ConnectedMessage)]), out.bodyRead)
      ELSE Returned(JObj([connected |-> JBool(FALSE),
                          message |-> listed.error.message]), out.bodyRead)

\* the result of operation o, given the outcome of its (last) request
OpResult(o, out) == IF o = TestConnection THEN testConnection(out) ELSE Unwrap(o, out)

\* the operation whose request a call of o sends on the control plane
Target(o) == IF o = TestConnection THEN "listIndexes" ELSE o

(***************************************************************************)
(* Tool handlers.  The vector tools whose handlers check their arguments   *)
(* before calling the client (pinecone_query_vectors,                      *)
(* pinecone_update_vector, pinecone_delete_vectors), pinecone_create_index *)
(* which builds the deployment spec from its arguments, and handlers that  *)
(* call the client at once: pinecone_upsert_vectors,                       *)
(* pinecone_list_vector_ids, pinecone_delete_index and                     *)
(* pinecone_list_collections.  A handler returns a tool response, built by *)
(* formatError, formatResponse or formatSuccess.                           *)
(***************************************************************************)
NoTool == "none"
QueryTool == "pinecone_query_vectors"
UpdateTool == "pinecone_update_vector"
DeleteTool == "pinecone_delete_vectors"
UpsertTool == "pinecone_upsert_vectors"
ListIdsTool == "pinecone_list_vector_ids"
CreateIndexTool == "pinecone_create_index"
DeleteIndexTool == "pinecone_delete_index"
ListCollectionsTool == "pinecone_list_collections"
ToolNames ==
  {QueryTool, UpdateTool, DeleteTool, UpsertTool, ListIdsTool, CreateIndexTool,
   DeleteIndexTool, ListCollectionsTool}

\* the client operation a handler calls
ToolOp(tool) ==
  CASE tool = QueryTool -> "queryVectors"
    [] tool = UpdateTool -> "updateVector"
    [] tool = DeleteTool -> "deleteVectors"
    [] tool = UpsertTool -> "upsertVectors"
    [] tool = ListIdsTool -> "listVectorIds"
    [] tool = CreateIndexTool -> "createIndex"
    [] tool = DeleteIndexTool -> "deleteIndex"
    [] tool = ListCollectionsTool -> "listCollections"

\* argument values the tools' schemas admit
VectorArgs == {JUndefined, JArr(<<>>), JArr(<<JNum(1)>>)}
IdArgs == {JUndefined, JStr(""), JStr("v1")}
IdsArgs == {JUndefined, JArr(<<>>), JArr(<<JStr("v1")>>)}
FlagArgs == {JUndefined, JBool(FALSE), JBool(TRUE)}
RecordArgs == {JUndefined, JObj(<<>>), JObj([genre |-> JStr("x")])}

CloudArgs == {JUndefined, JStr("aws")}
TextArgs == {JUndefined, JStr(""), JStr("x")}

\* the arguments of each handler (for the vector tools, they are the
\* properties of the request object it hands to the client)
QueryArgs ==
  {JObj([vector |-> v, id |-> i, topK |-> JNum(3), namespace |-> JUndefined,
         filter |-> JUndefined, includeValues |-> JBool(FALSE),
         includeMetadata |-> JBool(TRUE)]) : v \in VectorArgs, i \in IdArgs}
UpdateArgs ==
  {JObj([id |-> JStr("v1"), values |-> v, setMetadata |-> m,
         namespace |-> JUndefined]) : v \in VectorArgs, m \in RecordArgs}
DeleteArgs ==
  {JObj([ids |-> i, deleteAll |-> d, filter |-> f, namespace |-> JUndefined]) :
     i \in IdsArgs, d \in FlagArgs, f \in RecordArgs}
UpsertArgs ==
  {JObj([vectors |-> JArr(<<JObj([id |-> JStr("v1"), values |-> JArr(<<JNum(1)>>)])>>),
         namespace |-> JUndefined])}
ListIdsArgs ==
  {JObj([namespace |-> JUndefined, prefix |-> JUndefined, limit |-> JNum(100),
         paginationToken |-> t]) : t \in PageTokens}
CreateIndexArgs ==
  {JObj([name |-> JStr("a"), dimension |-> JNum(8), metric |-> JStr("cosine"),
         cloud |-> c, region |-> r, environment |-> e, podType |-> p,
         pods |-> JUndefined, replicas |-> JUndefined]) :
     c \in CloudArgs, r \in TextArgs, e \in TextArgs, p \in TextArgs}
ToolArgs(tool) ==
  CASE tool = QueryTool -> QueryArgs
    [] tool = UpdateTool -> UpdateArgs
    [] tool = DeleteTool -> DeleteArgs
    [] tool = UpsertTool -> UpsertArgs
    [] tool = ListIdsTool -> ListIdsArgs
    [] tool = CreateIndexTool -> CreateIndexArgs
    [] OTHER -> {NoArgs}

\* new Error(message)
Error(message) == [name |-> "Error", message |-> JStr(message)]

QueryMessage == "Must provide either vector or id"
UpdateMessage == "Must provide either values or setMetadata"
DeleteMessage == "Must provide ids, deleteAll, or filter"
CreateIndexMessage ==
  "Must provide either (cloud + region) for serverless or (environment + podType) for pod-based index"

\* formatError, formatResponse, formatSuccess: the tool response, as the
\* error or the data its text is built from
\* `error instanceof PineconeApiError && error.retryable`: of the errors the
\* client throws, only the rate-limit error is marked retryable
Retryable(error) == error.name = "RateLimitError"

\* mutation of formatError: only the client's own errors are flagged
formatErrorFlaggingApiErrors(error) ==
  [isError |-> error.name \in {"PineconeApiError", "RateLimitError",
                               "AuthenticationError"},
   error |-> error,
   message |-> [t |-> "string", v |-> "Error: {}", arg |-> error.message,
                suffix |-> IF Retryable(error) THEN " (retryable)" ELSE ""]]

\* formatError: isError: true and the text `Error: ${error.message}`,
\* followed by " (retryable)" for a retryable PineconeApiError
formatError(error) ==
  [isError |-> TRUE, error |-> error,
   message |-> [t |-> "string", v |-> "Error: {}", arg |-> error.message,
                suffix |-> IF Retryable(error) THEN " (retryable)" ELSE ""]]
formatResponse(data) == [isError |-> FALSE, data |-> data]
formatSuccess(message) ==
  [isError |-> FALSE, data |-> JObj([success |-> JBool(TRUE), message |-> message])]

\* mutation of queryVectorsRejects: the arguments are not checked
queryVectorsRejectsNothing(args) == FALSE

\* if (!vector && !id)
queryVectorsRejects(args) ==
  ~Truthy(Get(args, "vector")) /\ ~Truthy(Get(args, "id"))

\* mutation of updateVectorRejects: the arguments are not checked
updateVectorRejectsNothing(args) == FALSE

\* if (!values && !setMetadata)
updateVectorRejects(args) ==
  ~Truthy(Get(args, "values")) /\ ~Truthy(Get(args, "setMetadata"))

\* mutation of deleteVectorsRejects: the arguments are not checked
deleteVectorsRejectsNothing(args) == FALSE

\* if (!ids && !deleteAll && !filter)
deleteVectorsRejects(args) ==
  /\ ~Truthy(Get(args, "ids"))
  /\ ~Truthy(Get(args, "deleteAll"))
  /\ ~Truthy(Get(args, "filter"))

\* mutation of createIndexSpec: the pod arguments are looked at first
createIndexSpecPodFirst(args) ==
  IF Truthy(Get(args, "environment")) /\ Truthy(Get(args, "podType"))
  THEN JObj([pod |-> JObj([environment |-> Get(args, "environment"),
                           pod_type |-> Get(args, "podType")])])
  ELSE IF Truthy(Get(args, "cloud")) /\ Truthy(Get(args, "region"))
  THEN JObj([serverless |-> JObj([cloud |-> Get(args, "cloud"),
                                  region |-> Get(args, "region")])])
  ELSE JUndefined

\* pinecone_create_index: `if (cloud && region) ... else if (environment &&
\* podType) ... else return formatError(...)`; undefined stands for the
\* last branch, in which spec is never assigned
createIndexSpec(args) ==
  IF Truthy(Get(args, "cloud")) /\ Truthy(Get(args, "region"))
  THEN JObj([serverless |-> JObj([cloud |-> Get(args, "cloud"),
                                  region |-> Get(args, "region")])])
  ELSE IF Truthy(Get(args, "environment")) /\ Truthy(Get(args, "podType"))
  THEN JObj([pod |-> JObj([environment |-> Get(args, "environment"),
                           pod_type |-> Get(args, "podType")])])
  ELSE JUndefined

\* the request object a handler hands to the client
ToolRequest(tool, args) ==
  IF tool = CreateIndexTool
  THEN JObj([name |-> Get(args, "name"), dimension |-> Get(args, "dimension"),
             metric |-> Get(args, "metric"), spec |-> createIndexSpec(args)])
  ELSE args

\* the handler's check: the response it returns at once, if any
ToolRejects(tool, args) ==
  CASE tool = QueryTool -> queryVectorsRejects(args)
    [] tool = UpdateTool -> updateVectorRejects(args)
    [] tool = DeleteTool -> deleteVectorsRejects(args)
    [] tool = CreateIndexTool -> createIndexSpec(args) = JUndefined
    [] OTHER -> FALSE
ToolRejection(tool) ==
  CASE tool = QueryTool -> formatError(Error(QueryMessage))
    [] tool = UpdateTool -> formatError(Error(UpdateMessage))
    [] tool = DeleteTool -> formatError(Error(DeleteMessage))
    [] tool = CreateIndexTool -> formatError(Error(CreateIndexMessage))

\* x.length
Length(x) == IF x.t = "array" THEN JNum(Len(x.v)) ELSE JUndefined

\* result.vectors.map((v) => v.id)
VectorIds(vectors) == JArr([i \in 1 .. Len(vectors.v) |-> Get(vectors.v[i], "id")])

\* mutation of ToolResult: the handlers have no try/catch
ToolResultWithoutCatch(tool, args, out) ==
  IF ~out.ok THEN out
  ELSE IF tool \in {QueryTool, UpsertTool, ListIdsTool} /\ Throws(out.value)
  THEN Thrown(TypeError, out.bodyRead)
  ELSE formatResponse(out.value)

\* the rest of the handler, once the client operation has settled with out;
\* whatever is thrown inside the try is handed to formatError
ToolResult(tool, args, out) ==
  IF ~out.ok THEN formatError(out.error)
  ELSE CASE tool = QueryTool ->
              IF Throws(out.value) \/ Throws(Get(out.value, "matches"))
              THEN formatError(TypeError)
              ELSE formatResponse(JObj(
                     [matches |-> Get(out.value, "matches"),
                      namespace |-> Get(out.value, "namespace"),
                      matchCount |-> Length(Get(out.value, "matches")),
                      usage |-> Get(out.value, "usage")]))
         [] tool = UpdateTool ->
              formatSuccess([t |-> "string", v |-> "Vector '{}' updated successfully",
                             arg |-> Get(args, "id")])
         [] tool = DeleteTool ->
              formatSuccess(
                IF Truthy(Get(args, "deleteAll"))
                THEN [t |-> "string", v |-> "All vectors deleted from namespace '{}'",
                      arg |-> Or(Get(args, "namespace"), JStr("default"))]
                ELSE IF Truthy(Get(args, "ids"))
                THEN [t |-> "string", v |-> "Deleted {} vectors",
                      arg |-> Length(Get(args, "ids"))]
                ELSE JStr("Vectors matching filter deleted"))
         [] tool = UpsertTool ->
              IF Throws(out.value) THEN formatError(TypeError)
              ELSE formatSuccess([t |-> "string", v |-> "Upserted {} vectors",
                                  arg |-> Get(out.value, "upsertedCount")])
         [] tool = ListIdsTool ->
              IF Throws(out.value) \/ Get(out.value, "vectors").t # "array"
              THEN formatError(TypeError)
              ELSE LET next == OptGet(Get(out.value, "pagination"), "next")
                   IN  formatResponse(JObj(
                         [vectorIds |-> VectorIds(Get(out.value, "vectors")),
                          count |-> Length(Get(out.value, "vectors")),
                          namespace |-> Get(out.value, "namespace"),
                          nextToken |-> next,
                          hasMore |-> JBool(Truthy(next)),
                          usage |-> Get(out.value, "usage")]))
         [] tool = CreateIndexTool ->
              formatSuccess(JStr("Index created successfully"))
         [] tool = DeleteIndexTool ->
              formatSuccess([t |-> "string", v |-> "Index '{}' deleted successfully"])
         [] tool = ListCollectionsTool ->
              formatResponse(JObj([collections |-> out.value,
                                   count |-> Length(out.value)]))

(***************************************************************************)
(* Calls.  A call is one invocation of a facade operation; it suspends     *)
(* only while a fetch (and the reading of its body) is outstanding.        *)
(*   pc: "idle", "awaitControl", "awaitDescribe", "awaitData", "done"      *)
(*   host: the local `host` of dataPlaneRequest                            *)
(*   sent: the requests the call has handed to fetch, in order             *)
(*   resp: the response delivered last; result: how the call settled       *)
(* History kept for the properties: hadEntry (the cache had an entry for   *)
(* the key when the call started), staleDescribe (a deleteIndex of the key *)
(* succeeded while this call's describe was outstanding), used (the kind   *)
(* of cache entry it took its host from), outcome (how the client          *)
(* operation settled, which for a call made by a tool handler is not the   *)
(* handler's response); prior[k] is what the last call                     *)
(* about index k that returned to its caller was: a successful deleteIndex *)
(* or a data-plane operation; stale[k] tells where the entry of k is from. *)
(***************************************************************************)
NoResponse == [kind |-> "none"]
Pending == [pending |-> TRUE]
NoPrior == [kind |-> "none"]
Deleted == [kind |-> "deleted"]
DataPrior(miss, host) == [kind |-> "data", miss |-> miss, host |-> host]

Idle ==
  [pc |-> "idle", op |-> "none", key |-> NoName, host |-> JUndefined,
   sent |-> <<>>, resp |-> NoResponse, result |-> Pending,
   hadEntry |-> FALSE, staleDescribe |-> FALSE, used |-> "none",
   tool |-> NoTool, args |-> NoArgs, outcome |-> Pending]

Slots == 1 .. MaxInFlight

\* The clients the worker has built, one per POST /mcp request it accepted
\* (instances), and the step taken last: the instance it acted on and, for
\* a request, the API key its header carried (handled).
InstanceIds == 1 .. MaxInstances
NoInstance == [live |-> FALSE]
NoStep == [instance |-> 0, kind |-> "none"]

ApiKeys == {JUndefined, JStr(""), JStr("pk-live")}

Init ==
  /\ credentials \in {[apiKey |-> a] : a \in ApiKeys}
  /\ indexHostCache = EmptyCache
  /\ calls = [s \in Slots |-> Idle]
  /\ prior = [k \in Names |-> NoPrior]
  /\ stale = [k \in Names |-> "no"]
  /\ instances = [i \in InstanceIds |-> NoInstance]
  /\ handled = NoStep

\* the record of call c once it has settled with result, after response r
\* (a call made by a tool handler settles with the handler's response)
Settled(c, r, result) ==
  [c EXCEPT !.pc = "done", !.resp = r, !.outcome = result,
            !.result = IF c.tool = NoTool THEN result
                       ELSE ToolResult(c.tool, c.args, result)]

\* prior, once call c has returned to its caller
PriorAfter(c) ==
  IF c.op \in DataOps
  THEN [prior EXCEPT ![c.key] = DataPrior(~c.hadEntry, c.host)]
  ELSE IF c.op = "deleteIndex" /\ c.outcome.ok
  THEN [prior EXCEPT ![c.key] = Deleted]
  ELSE prior

(***************************************************************************)
(* The cache steps of getIndexHost and deleteIndex.                        *)
(***************************************************************************)
\* getIndexHost, lines 232-235: the cached host, if `if (cached)` passes
CacheHit(cache, k) == Truthy(CacheGet(cache, k))

\* mutation of CacheAfterResolve: the host is not stored
CacheAfterResolveDropped(cache, k, index) == cache

\* mutation of CacheAfterResolve: the host is stored under every name
CacheAfterResolveEveryKey(cache, k, index) ==
  [x \in Names |-> Get(index, "host")]

\* getIndexHost, lines 238-240: describeIndex resolved to index
CacheAfterResolve(cache, k, index) == CacheSet(cache, k, Get(index, "host"))

\* mutation of CacheAfterDelete: the entry is not evicted
CacheAfterDeleteKept(cache, k, out) == cache

\* mutation of CacheAfterDelete: the entry is evicted whatever the outcome
CacheAfterDeleteAlways(cache, k, out) == CacheDelete(cache, k)

\* deleteIndex, lines 289-293: its request settled with out
CacheAfterDelete(cache, k, out) == IF out.ok THEN CacheDelete(cache, k) ELSE cache

(***************************************************************************)
(* Actions.                                                                *)
(***************************************************************************)
\* A control-plane operation (or testConnection) is called: request builds
\* the headers, which throws without a key, and hands the request to fetch.
BeginControl(s, o, k, tool, args) ==
  /\ calls[s].pc = "idle"
  /\ o \in ControlOps \cup {TestConnection}
  /\ k \in KeysOf(o)
  /\ LET auth == getAuthHeaders(credentials)
         c == [Idle EXCEPT !.op = o, !.key = k, !.tool = tool, !.args = args,
                           !.hadEntry = o = "deleteIndex" /\ CacheHas(indexHostCache, k)]
     IN  calls' = [calls EXCEPT ![s] =
           IF auth.ok
           THEN [c EXCEPT !.pc = "awaitControl",
                          !.sent = <<WithArgs(ControlRequest(Target(o), k, auth.value),
                                              o, ToolRequest(tool, args))>>]
           ELSE Settled(c, NoResponse, OpResult(o, auth))]
  /\ UNCHANGED <<instances, handled, credentials, indexHostCache, prior, stale>>

\* A control-plane operation of the client is called directly.
StartControl(s, o, k) == BeginControl(s, o, k, NoTool, NoArgs)

\* A data-plane operation is called: dataPlaneRequest awaits getIndexHost,
\* which returns the cached host or calls describeIndex.
BeginData(s, o, k, tool, args) ==
  /\ calls[s].pc = "idle"
  /\ o \in DataOps
  /\ k \in KeysOf(o)
  /\ LET auth == getAuthHeaders(credentials)
         hit == CacheHit(indexHostCache, k)
         c == [Idle EXCEPT !.op = o, !.key = k, !.tool = tool, !.args = args,
                           !.hadEntry = CacheHas(indexHostCache, k),
                           !.host = IF hit THEN CacheGet(indexHostCache, k)
                                    ELSE JUndefined,
                           !.used = IF hit THEN stale[k] ELSE "none"]
     IN  calls' = [calls EXCEPT ![s] =
           IF ~auth.ok THEN Settled(c, NoResponse, OpResult(o, auth))
           ELSE IF hit
           THEN [c EXCEPT !.pc = "awaitData",
                          !.sent = <<WithArgs(DataRequest(c.host, o, k, auth.value),
                                              o, ToolRequest(tool, args))>>]
           ELSE [c EXCEPT !.pc = "awaitDescribe",
                          !.sent = <<ControlRequest("describeIndex", k, auth.value)>>]]
  /\ UNCHANGED <<instances, handled, credentials, indexHostCache, prior, stale>>

\* A data-plane operation of the client is called directly.
StartData(s, o, k) == BeginData(s, o, k, NoTool, NoArgs)

\* A tool is called: its handler returns an error response at once when
\* its check fails, and calls the client operation otherwise.
StartTool(s, tool, k, args) ==
  /\ calls[s].pc = "idle"
  /\ tool \in ToolNames
  /\ args \in ToolArgs(tool)
  /\ IF ToolRejects(tool, args)
     THEN /\ calls' = [calls EXCEPT ![s] =
                [Idle EXCEPT !.pc = "done", !.key = k, !.tool = tool, !.args = args,
                             !.result = ToolRejection(tool)]]
          /\ UNCHANGED <<instances, handled, credentials, indexHostCache, prior, stale>>
     ELSE IF ToolOp(tool) \in DataOps
     THEN BeginData(s, ToolOp(tool), k, tool, args)
     ELSE BeginControl(s, ToolOp(tool), k, tool, args)

\* The request of a control-plane operation settles.  deleteIndex then
\* evicts its index from the cache.
RespondControl(s, r) ==
  /\ calls[s].pc = "awaitControl"
  /\ LET c == calls[s]
         out == requestOutcome(r)
         deleted == c.op = "deleteIndex" /\ out.ok
     IN  /\ indexHostCache' =
              IF c.op = "deleteIndex"
              THEN CacheAfterDelete(indexHostCache, c.key, out)
              ELSE indexHostCache
         /\ calls' = [t \in Slots |->
              IF t = s THEN Settled(c, r, OpResult(c.op, out))
              ELSE IF deleted /\ calls[t].pc = "awaitDescribe" /\ calls[t].key = c.key
                   THEN [calls[t] EXCEPT !.staleDescribe = TRUE]
              ELSE calls[t]]
         /\ stale' = IF deleted
                     THEN [stale EXCEPT ![c.key] =
                             IF CacheHas(indexHostCache', c.key) THEN "kept" ELSE "no"]
                     ELSE stale
  /\ UNCHANGED <<instances, handled, credentials, prior>>

\* mutation of RespondDescribe: getIndexHost swallows the failure of
\* describeIndex and goes on with what it has
RespondDescribeIgnoringFailure(s, r) ==
  /\ calls[s].pc = "awaitDescribe"
  /\ LET c == calls[s]
         out == requestOutcome(r)
         auth == getAuthHeaders(credentials)
         index == IF out.ok /\ ~Throws(out.value) THEN out.value ELSE JObj(<<>>)
         host == Get(index, "host")
         d == [c EXCEPT !.host = host, !.resp = r]
     IN  /\ indexHostCache' = CacheAfterResolve(indexHostCache, c.key, index)
         /\ stale' = [stale EXCEPT ![c.key] =
                        IF c.staleDescribe THEN "raced" ELSE "no"]
         /\ calls' = [calls EXCEPT ![s] =
              IF auth.ok
              THEN [d EXCEPT !.pc = "awaitData",
                             !.sent = Append(c.sent,
                                WithArgs(DataRequest(host, c.op, c.key, auth.value),
                                         c.op, ToolRequest(c.tool, c.args)))]
              ELSE Settled(d, r, auth)]
  /\ UNCHANGED <<instances, handled, credentials, prior>>

\* The describeIndex request made by getIndexHost settles: on success the
\* host is cached and the data-plane request is handed to fetch.
RespondDescribe(s, r) ==
  /\ calls[s].pc = "awaitDescribe"
  /\ LET c == calls[s]
         out == requestOutcome(r)
         auth == getAuthHeaders(credentials)
     IN  IF ~out.ok
         THEN /\ calls' = [calls EXCEPT ![s] = Settled(c, r, out)]
              /\ UNCHANGED <<indexHostCache, stale>>
         ELSE IF Throws(out.value)
         THEN /\ calls' = [calls EXCEPT ![s] = Settled(c, r, Thrown(TypeError, out.bodyRead))]
              /\ UNCHANGED <<indexHostCache, stale>>
         ELSE LET host == Get(out.value, "host")
                  d == [c EXCEPT !.host = host, !.resp = r]
              IN  /\ indexHostCache' = CacheAfterResolve(indexHostCache, c.key, out.value)
                  /\ stale' = [stale EXCEPT ![c.key] =
                                 IF c.staleDescribe THEN "raced" ELSE "no"]
                  /\ calls' = [calls EXCEPT ![s] =
                       IF auth.ok
                       THEN [d EXCEPT !.pc = "awaitData",
                                      !.sent = Append(c.sent,
                                         WithArgs(DataRequest(host, c.op, c.key,
                                                              auth.value),
                                                  c.op, ToolRequest(c.tool, c.args)))]
                       ELSE Settled(d, r, auth)]
  /\ UNCHANGED <<instances, handled, credentials, prior>>

\* mutation of RespondData: a 429 or 5xx answer makes request send again
RespondDataRetrying(s, r) ==
  /\ calls[s].pc = "awaitData"
  /\ LET c == calls[s]
     IN  calls' = [calls EXCEPT ![s] =
           IF r.kind = "response" /\ (r.status = 429 \/ r.status >= 500)
           THEN [c EXCEPT !.sent = Append(c.sent, c.sent[Len(c.sent)]), !.resp = r]
           ELSE Settled(c, r, OpResult(c.op, requestOutcome(r)))]
  /\ UNCHANGED <<instances, handled, credentials, indexHostCache, prior, stale>>

\* mutation of RespondData: a failed data-plane request evicts the host
RespondDataEvicting(s, r) ==
  /\ calls[s].pc = "awaitData"
  /\ LET c == calls[s]
         out == requestOutcome(r)
     IN  /\ calls' = [calls EXCEPT ![s] = Settled(c, r, OpResult(c.op, out))]
         /\ indexHostCache' = IF out.ok THEN indexHostCache
                              ELSE CacheDelete(indexHostCache, c.key)
  /\ UNCHANGED <<instances, handled, credentials, prior, stale>>

\* The data-plane request settles.
RespondData(s, r) ==
  /\ calls[s].pc = "awaitData"
  /\ LET c == calls[s]
     IN  calls' = [calls EXCEPT ![s] = Settled(c, r, OpResult(c.op, requestOutcome(r)))]
  /\ UNCHANGED <<instances, handled, credentials, indexHostCache, prior, stale>>

\* The caller takes the result; the slot is free for the next call.
Return(s) ==
  /\ calls[s].pc = "done"
  /\ calls' = [calls EXCEPT ![s] = Idle]
  /\ prior' = PriorAfter(calls[s])
  /\ UNCHANGED <<instances, handled, credentials, indexHostCache, stale>>

(***************************************************************************)
(* Spec: one facade instance, every operation, calls issued one at a time. *)
(***************************************************************************)
Next ==
  \/ \E o \in ControlOps \cup {TestConnection} : \E k \in KeysOf(o) : StartControl(1, o, k)
  \/ \E o \in DataOps : \E k \in KeysOf(o) : StartData(1, o, k)
  \/ \E r \in WireResponses : RespondControl(1, r)
  \/ \E r \in WireResponses : RespondDescribe(1, r)
  \/ \E r \in WireResponses : RespondData(1, r)
  \/ Return(1)

Spec == Init /\ [][Next]_vars

(***************************************************************************)
(* SpecRequest: request's classification, applied to every response of     *)
(* AllResponses by an operation that returns request's result as it is.    *)
(***************************************************************************)
NextRequest ==
  \/ \E k \in Names : StartControl(1, "describeModel", k)
  \/ /\ calls[1].pc = "awaitControl"
     /\ \E r \in AllResponses : RespondControl(1, r)
  \/ Return(1)

SpecRequest == Init /\ [][NextRequest]_vars

\* the call in slot s has settled after receiving an HTTP response
Answered(s) == calls[s].pc = "done" /\ calls[s].resp.kind = "response"

\* the number a non-empty sequence of decimal digits denotes
RECURSIVE Numeral(_)
Numeral(s) ==
  IF s = <<>> THEN 0
  ELSE 10 * Numeral(SubSeq(s, 1, Len(s) - 1)) + DigitVal(s[Len(s)])

IsNumeral(s) == s # <<>> /\ \A i \in 1 .. Len(s) : IsDigit(s[i])

\* C7: a 429 response yields a RateLimitError, whatever its body; the delay
\* is the number of seconds the Retry-After header states when the header
\* is present (a decimal integer), and 60 when it is absent.
C7_RateLimit ==
  \A s \in Slots :
    (Answered(s) /\ calls[s].resp.status = 429) =>
      LET c == calls[s]
          h == c.resp.retryAfter
      IN  /\ ~c.result.ok
          /\ ~c.result.bodyRead
          /\ c.result.error.name = "RateLimitError"
          /\ ~h.present => c.result.error.retryAfter = JNum(60)
          /\ (h.present /\ IsNumeral(h.chars)) =>
               c.result.error.retryAfter = JNum(Numeral(h.chars))

C7_Witness ==
  \E s \in Slots :
    /\ Answered(s)
    /\ calls[s].resp.status = 429
    /\ calls[s].resp.retryAfter = HeaderOf(<<"3", "7">>)
    /\ calls[s].resp.body = BodyOf(BodyErrNested)
    /\ calls[s].result.error.retryAfter = JNum(37)

\* C8: a 401 or 403 response yields the AuthenticationError with the fixed
\* message, whatever the body; the body is not read.
C8_AuthFixed ==
  \A s \in Slots :
    (Answered(s) /\ calls[s].resp.status \in {401, 403}) =>
      calls[s].result = Thrown(AuthenticationError(AuthFailedMessage), FALSE)

C8_Witness ==
  \E s \in Slots :
    /\ Answered(s)
    /\ calls[s].resp.status = 403
    /\ calls[s].resp.body = BodyOf(BodyErrNested)
    /\ ~calls[s].result.ok

\* the fields the message of an ApiError is taken from
HasNestedMessage(v) ==
  /\ v.t = "object"
  /\ "error" \in DOMAIN v.f
  /\ v.f.error.t = "object"
  /\ "message" \in DOMAIN v.f.error.f
HasTopMessage(v) == v.t = "object" /\ "message" \in DOMAIN v.f

OtherFailure(r) ==
  r.kind = "response" /\ ~(r.status \in 200 .. 299) /\ r.status \notin {429, 401, 403}

\* the message C9 states: the nested field, else the top-level field, else
\* the generic string
StatedMessage(r) ==
  LET parsed == JSONParse(r.body.text)
  IN  IF parsed.ok /\ HasNestedMessage(parsed.value)
      THEN parsed.value.f.error.f.message
      ELSE IF parsed.ok /\ HasTopMessage(parsed.value)
      THEN parsed.value.f.message
      ELSE JTemplate("API error: ", r.status)

\* the same, a field counting only when its value is truthy (non-empty)
StatedMessageNonEmpty(r) ==
  LET parsed == JSONParse(r.body.text)
  IN  IF parsed.ok /\ HasNestedMessage(parsed.value)
         /\ Truthy(parsed.value.f.error.f.message)
      THEN parsed.value.f.error.f.message
      ELSE IF parsed.ok /\ HasTopMessage(parsed.value)
              /\ Truthy(parsed.value.f.message)
      THEN parsed.value.f.message
      ELSE JTemplate("API error: ", r.status)

\* C9 as stated: every response outside 2xx other than 429, 401 and 403
\* (here: each one whose body can be read) yields an ApiError with the
\* status and the nested error.message field, else the top-level message
\* field, else "API error: {status}".
C9_AsStated ==
  \A s \in Slots :
    (Answered(s) /\ OtherFailure(calls[s].resp) /\ calls[s].resp.body.readable) =>
      /\ ~calls[s].result.ok
      /\ calls[s].result.error.name = "PineconeApiError"
      /\ calls[s].result.error.status = calls[s].resp.status
      /\ calls[s].result.error.message = StatedMessage(calls[s].resp)

\* C9, amended: when the body can be read, the ApiError carries the status
\* and the first non-empty of error.message and message, else the generic
\* string.
C9_ApiError ==
  \A s \in Slots :
    (Answered(s) /\ OtherFailure(calls[s].resp) /\ calls[s].resp.body.readable) =>
      calls[s].result =
        Thrown(PineconeApiError(StatedMessageNonEmpty(calls[s].resp),
                                calls[s].resp.status), TRUE)

C9_Witness ==
  \E s \in Slots :
    /\ Answered(s)
    /\ calls[s].resp.status = 500
    /\ calls[s].resp.body = BodyOf(BodyErrBoth)
    /\ calls[s].result.error = PineconeApiError(JStr("boom"), 500)

\* C10: a 202 or 204 response yields success with an undefined payload and
\* the body is neither read nor parsed, whatever it is.
C10_NoContent ==
  \A s \in Slots :
    (Answered(s) /\ calls[s].resp.status \in {202, 204}) =>
      calls[s].result = Returned(JUndefined, FALSE)

C10_Witness ==
  \E s \in Slots :
    /\ Answered(s)
    /\ calls[s].resp.status = 202
    /\ calls[s].resp.body = BodyOf(BodyGarbage)
    /\ calls[s].result.ok

\* a 2xx response that request does not answer before reading the body
ParsedSuccess(r) ==
  r.kind = "response" /\ ResponseOk(r) /\ r.status \notin {202, 204}

\* C11: a 2xx response other than 202 and 204 whose body is empty yields
\* success with an undefined payload, never an error.
C11_EmptyBody ==
  \A s \in Slots :
    (Answered(s) /\ ParsedSuccess(calls[s].resp)
       /\ calls[s].resp.body = BodyOf(BodyEmpty)) =>
      calls[s].result = Returned(JUndefined, TRUE)

C11_Witness ==
  \E s \in Slots :
    /\ Answered(s)
    /\ calls[s].resp.status = 201
    /\ calls[s].resp.body = BodyOf(BodyEmpty)
    /\ calls[s].result.ok
    /\ calls[s].result.value = JUndefined

\* the typed errors request classifies responses into
ClassifiedErrors == {"AuthenticationError", "RateLimitError", "PineconeApiError"}

\* C12: a 2xx response other than 202 and 204 with a non-empty body yields
\* the value the body denotes as JSON; when the body is not JSON the
\* SyntaxError of JSON.parse propagates, not a classified error.
C12_ParsedBody ==
  \A s \in Slots :
    (Answered(s) /\ ParsedSuccess(calls[s].resp)
       /\ calls[s].resp.body.readable /\ calls[s].resp.body.text # "") =>
      LET parsed == JSONParse(calls[s].resp.body.text)
      IN  IF parsed.ok
          THEN /\ calls[s].result.ok
               /\ calls[s].result.value = parsed.value
          ELSE /\ ~calls[s].result.ok
               /\ calls[s].result.error = SyntaxError
               /\ calls[s].result.error.name \notin ClassifiedErrors

C12_Witness ==
  \E s \in Slots :
    /\ Answered(s)
    /\ calls[s].resp.status = 200
    /\ calls[s].resp.body = BodyOf(BodyGarbage)
    /\ ~calls[s].result.ok
    /\ calls[s].result.error.name = "SyntaxError"

(***************************************************************************)
(* SpecConcurrent: deleteIndex and data-plane calls of one instance        *)
(* overlapping, each suspended only while its fetch is outstanding.        *)
(***************************************************************************)
\* describeIndex answers with the host of the index, which the deletion
\* and re-creation of the index changes; the other requests succeed
RaceDescriptions ==
  {Response(200, HeaderAbsent, BodyOf(BodyHostA)),
   Response(200, HeaderAbsent, BodyOf(BodyHostB))}
RaceAccepted == Response(204, HeaderAbsent, BodyOf(BodyEmpty))

\* the index the overlapping calls are about
RaceNames == {"a"}

RaceRefused == Response(404, HeaderAbsent, BodyOf(BodyErrNested))

NextConcurrent ==
  \E s \in Slots :
    \/ \E k \in RaceNames : StartControl(s, "deleteIndex", k)
    \/ \E k \in RaceNames : StartData(s, "upsertVectors", k)
    \/ \E r \in {RaceAccepted, RaceRefused} : RespondControl(s, r)
    \/ \E r \in RaceDescriptions : RespondDescribe(s, r)
    \/ RespondData(s, RaceAccepted)
    \/ Return(s)

SpecConcurrent == Init /\ [][NextConcurrent]_vars

(***************************************************************************)
(* Properties of the cache (Spec, SpecConcurrent).                         *)
(***************************************************************************)
\* the headers of every request of an instance that has a key
Headers == getAuthHeaders(credentials).value

IsDataCall(c) == c.pc # "idle" /\ c.op \in DataOps

\* the two requests of a data-plane call that resolves its host
DescribeOf(c) == ControlRequest("describeIndex", c.key, Headers)
DataOf(c, host) == DataRequest(host, c.op, c.key, Headers)

\* C1 as stated: with calls issued one at a time, a data-plane call for X
\* that starts with no entry for X and whose describe-index returns a host
\* sends one describe-index request and then one data-plane request, and
\* the next data-plane call for X sends no describe-index request and one
\* data-plane request, to the same host; for every host value.
C1_AsStated ==
  \A s \in Slots :
    LET c == calls[s]
        p == prior[c.key]
    IN  (IsDataCall(c) /\ c.pc = "done") =>
          /\ (~c.hadEntry /\ c.host.t = "string") =>
               c.sent = <<DescribeOf(c), DataOf(c, c.host)>>
          /\ (p.kind = "data" /\ p.miss /\ p.host.t = "string") =>
               c.sent = <<DataOf(c, p.host)>>

\* C1, amended: the same for every non-empty host.
C1_ResolveOnce ==
  \A s \in Slots :
    LET c == calls[s]
        p == prior[c.key]
    IN  (IsDataCall(c) /\ c.pc = "done") =>
          /\ (~c.hadEntry /\ c.host.t = "string" /\ c.host.v # "") =>
               c.sent = <<DescribeOf(c), DataOf(c, c.host)>>
          /\ (p.kind = "data" /\ p.miss /\ p.host.t = "string" /\ p.host.v # "") =>
               c.sent = <<DataOf(c, p.host)>>

C1_Witness ==
  \E s \in Slots :
    /\ IsDataCall(calls[s])
    /\ calls[s].pc = "done"
    /\ prior[calls[s].key] = DataPrior(TRUE, JStr(HostA))
    /\ calls[s].sent = <<DataOf(calls[s], JStr(HostA))>>

\* C2: the first data-plane call for X after a successful deleteIndex(X)
\* finds no entry for X and sends a describe-index request before its
\* data-plane request.
C2_ResolveAfterDelete ==
  \A s \in Slots :
    LET c == calls[s]
    IN  (IsDataCall(c) /\ prior[c.key] = Deleted) =>
          /\ ~c.hadEntry
          /\ Len(c.sent) >= 1
          /\ c.sent[1] = DescribeOf(c)
          /\ Len(c.sent) = 2 => c.sent[2] = DataOf(c, c.host)

C2_Witness ==
  \E s \in Slots :
    /\ IsDataCall(calls[s])
    /\ prior[calls[s].key] = Deleted
    /\ calls[s].pc = "done"
    /\ Len(calls[s].sent) = 2

\* the call in slot s settles in this step
Settles(s) == calls[s].pc \notin {"idle", "done"} /\ calls'[s].pc = "done"

\* C3: the cache starts empty, and an entry for X appears or changes only
\* in a step in which a describe-index request for X, made by getIndexHost,
\* succeeds; the value stored is the host that response carries.
C3_EntriesFromDescribe ==
  /\ indexHostCache = EmptyCache
  /\ [][\A k \in Names :
          (CacheHas(indexHostCache', k) /\ indexHostCache'[k] # indexHostCache[k]) =>
            \E s \in Slots :
              /\ calls[s].pc = "awaitDescribe"
              /\ calls[s].key = k
              /\ calls[s].sent = <<ControlRequest("describeIndex", k, Headers)>>
              /\ LET out == requestOutcome(calls'[s].resp)
                 IN  /\ out.ok
                     /\ ~Throws(out.value)
                     /\ indexHostCache'[k] = Get(out.value, "host")]_vars

C3_Witness ==
  \E s \in Slots :
    /\ calls[s].pc = "awaitData"
    /\ calls[s].key = "a"
    /\ calls[s].resp = Response(200, HeaderAbsent, BodyOf(BodyHostB))
    /\ indexHostCache["a"] = JStr(HostB)
    /\ indexHostCache["b"] = JStr(HostA)

\* C4: an entry is removed only by a deleteIndex of its name that succeeds;
\* a deleteIndex(X) that succeeds leaves no entry for X and every other
\* entry as it was, and one that fails leaves the cache as it was.
C4_EvictOnDelete ==
  [][/\ \A k \in Names :
          (CacheHas(indexHostCache, k) /\ ~CacheHas(indexHostCache', k)) =>
            \E s \in Slots :
              /\ Settles(s)
              /\ calls[s].op = "deleteIndex"
              /\ calls[s].key = k
              /\ calls'[s].result.ok
     /\ \A s \in Slots :
          (calls'[s].pc = "done" /\ calls[s].pc # "done"
             /\ calls'[s].op = "deleteIndex") =>
            indexHostCache' =
              IF calls'[s].result.ok
              THEN [k \in Names |-> IF k = calls'[s].key THEN Absent
                                    ELSE indexHostCache[k]]
              ELSE indexHostCache]_vars

C4_Witness ==
  \E s \in Slots :
    /\ calls[s].pc = "done"
    /\ calls[s].op = "deleteIndex"
    /\ calls[s].key = "a"
    /\ calls[s].hadEntry
    /\ calls[s].result.ok
    /\ ~CacheHas(indexHostCache, "a")
    /\ CacheHas(indexHostCache, "b")

\* C5 as stated: in every interleaving, no call for X that starts after a
\* successful deleteIndex(X) has returned takes its host from an entry
\* resolved by a describe-index issued before that deleteIndex returned.
C5_AsStated ==
  \A s \in Slots : calls[s].used \in {"none", "no"}

\* C5, amended: no entry for X that was in the cache when a successful
\* deleteIndex(X) returned is left in it, and no call takes its host from
\* such an entry; an entry resolved by a describe-index that was
\* outstanding when the deleteIndex returned is inserted all the same.
C5_NoEntryOutlivesDelete ==
  /\ \A k \in Names : stale[k] # "kept"
  /\ \A s \in Slots : calls[s].used # "kept"

C5_Witness ==
  \E s \in Slots : \E t \in Slots :
    /\ calls[s].op = "deleteIndex"
    /\ calls[s].pc = "done"
    /\ calls[s].result.ok
    /\ calls[s].hadEntry
    /\ IsDataCall(calls[t])
    /\ calls[t].key = calls[s].key
    /\ calls[t].used = "raced"

\* C6 as stated: without a key every operation fails with the
\* AuthenticationError, no request is handed to fetch and the cache keeps
\* its (empty) content.
C6_AsStated ==
  ~Truthy(credentials.apiKey) =>
    /\ indexHostCache = EmptyCache
    /\ \A s \in Slots :
         /\ calls[s].sent = <<>>
         /\ calls[s].pc \in {"idle", "done"}
         /\ calls[s].pc = "done" =>
              calls[s].result = Thrown(AuthenticationError(NoKeyMessage), FALSE)

\* C6, amended: the same for every operation but testConnection, which
\* returns connected = false with the message of that error.
C6_NoKey ==
  ~Truthy(credentials.apiKey) =>
    /\ indexHostCache = EmptyCache
    /\ \A s \in Slots :
         /\ calls[s].sent = <<>>
         /\ calls[s].pc \in {"idle", "done"}
         /\ (calls[s].pc = "done" /\ calls[s].op # TestConnection) =>
              calls[s].result = Thrown(AuthenticationError(NoKeyMessage), FALSE)
         /\ (calls[s].pc = "done" /\ calls[s].op = TestConnection) =>
              calls[s].result =
                Returned(JObj([connected |-> JBool(FALSE),
                               message |-> JStr(NoKeyMessage)]), FALSE)

C6_Witness ==
  \E s \in Slots :
    /\ credentials.apiKey = JUndefined
    /\ calls[s].pc = "done"
    /\ calls[s].op = "queryVectors"
    /\ calls[s].result.error.name = "AuthenticationError"

(***************************************************************************)
(* The list operations that unwrap an envelope (Spec).                     *)
(***************************************************************************)
\* listIndexes, listCollections, listBackups, listRestoreJobs,
\* listNamespaces, listImports, listModels
EnvelopeOps == {o \in OpNames : Operations[o].ret \notin {"value", "void"}}

\* call c has settled on the response to the request of its own operation
\* (not on the response to the describe-index of its resolution)
OwnResponse(c) ==
  /\ c.pc = "done"
  /\ c.op \in OpNames
  /\ c.resp.kind = "response"
  /\ c.sent # <<>>
  /\ c.sent[Len(c.sent)].path = PathOf(c.op, c.key)
  /\ c.sent[Len(c.sent)].method = Operations[c.op].method

\* C13 as stated: when the response to a list operation is classified as
\* success and the payload has no collection field, the operation returns
\* the empty sequence and raises no error; when the field is there it
\* returns the field.
C13_AsStated ==
  \A s \in Slots :
    LET c == calls[s]
    IN  (c.op \in EnvelopeOps /\ OwnResponse(c) /\ requestOutcome(c.resp).ok) =>
          LET field == OptGet(requestOutcome(c.resp).value, Operations[c.op].ret)
          IN  /\ c.result.ok
              /\ c.result.value = IF field = JUndefined THEN JArr(<<>>) ELSE field

(***************************************************************************)
(* SpecTools: the tool handlers, called one at a time on one client.       *)
(***************************************************************************)
ToolResponses ==
  {FetchRejected,
   Response(429, HeaderAbsent, BodyOf(BodyEmpty)),
   Response(404, HeaderAbsent, BodyOf(BodyErrNested)),
   Response(200, HeaderAbsent, BodyOf(BodyEmpty)),
   Response(200, HeaderAbsent, BodyOf(BodyHostA)),
   Response(200, HeaderAbsent, BodyOf(BodyMatches)),
   Response(200, HeaderAbsent, BodyOf(BodyPage)),
   Response(200, HeaderAbsent, BodyOf(BodyLastPage)),
   Response(200, HeaderAbsent, BodyOf(BodyEmptyNext))}

NextTools ==
  \/ \E tool \in ToolNames : \E k \in KeysOf(ToolOp(tool)) :
       \E args \in ToolArgs(tool) : StartTool(1, tool, k, args)
  \/ \E r \in ToolResponses : RespondControl(1, r)
  \/ \E r \in ToolResponses : RespondDescribe(1, r)
  \/ \E r \in ToolResponses : RespondData(1, r)
  \/ Return(1)

SpecTools == Init /\ [][NextTools]_vars

\* the argument named f was supplied to the handler
Supplied(args, f) == Get(args, f) # JUndefined

\* the properties, among fields, that the body of request req carries
Carried(req, fields) == {f \in fields : f \in DOMAIN req.body.f}

\* the requests call c has sent for its own operation
OwnRequests(c) ==
  {i \in 1 .. Len(c.sent) : c.sent[i].path = Operations[c.op].path}

\* C14: the query tool called with neither vector nor id returns at once
\* the error "Must provide either vector or id"; no request is sent for it
\* (no describe-index, no query) and the cache is unchanged.
C14_QueryNeither ==
  [][\A s \in Slots :
       (/\ calls[s].pc = "idle"
        /\ calls'[s].tool = QueryTool
        /\ ~Supplied(calls'[s].args, "vector")
        /\ ~Supplied(calls'[s].args, "id")) =>
         /\ calls'[s].pc = "done"
         /\ calls'[s].sent = <<>>
         /\ calls'[s].result = formatError(Error(QueryMessage))
         /\ indexHostCache' = indexHostCache]_vars

C14_Witness ==
  \E s \in Slots :
    /\ Truthy(credentials.apiKey)
    /\ calls[s].pc = "done"
    /\ calls[s].tool = QueryTool
    /\ ~Supplied(calls[s].args, "vector")
    /\ ~Supplied(calls[s].args, "id")
    /\ calls[s].result.isError
    /\ calls[s].sent = <<>>

\* C15 as stated: every query request that is sent carries exactly one of
\* vector and id (a call supplying both is not dispatched).
C15_AsStated ==
  \A s \in Slots :
    LET c == calls[s]
    IN  c.tool = QueryTool =>
          \A i \in OwnRequests(c) :
            Cardinality(Carried(c.sent[i], {"vector", "id"})) = 1

\* C16: the delete tool called with none of ids, deleteAll and filter
\* returns its error at once and sends no request; every delete request
\* that is sent carries at least one of the three, with a truthy value.
C16_DeleteNone ==
  \A s \in Slots :
    LET c == calls[s]
    IN  c.tool = DeleteTool =>
          /\ (\A f \in {"ids", "deleteAll", "filter"} : ~Supplied(c.args, f)) =>
                /\ c.pc = "done"
                /\ c.sent = <<>>
                /\ c.result = formatError(Error(DeleteMessage))
          /\ \A i \in OwnRequests(c) :
                \E f \in Carried(c.sent[i], {"ids", "deleteAll", "filter"}) :
                  Truthy(c.sent[i].body.f[f])

C16_Witness ==
  \E s \in Slots :
    /\ Truthy(credentials.apiKey)
    /\ calls[s].pc = "done"
    /\ calls[s].tool = DeleteTool
    /\ \A f \in {"ids", "deleteAll", "filter"} : ~Supplied(calls[s].args, f)
    /\ calls[s].result.isError
    /\ calls[s].sent = <<>>

\* C17: the update tool called with neither values nor setMetadata returns
\* its error at once and sends no request; every update request that is
\* sent carries at least one of the two.
C17_UpdateNeither ==
  \A s \in Slots :
    LET c == calls[s]
    IN  c.tool = UpdateTool =>
          /\ (~Supplied(c.args, "values") /\ ~Supplied(c.args, "setMetadata")) =>
                /\ c.pc = "done"
                /\ c.sent = <<>>
                /\ c.result = formatError(Error(UpdateMessage))
          /\ \A i \in OwnRequests(c) :
                Carried(c.sent[i], {"values", "setMetadata"}) # {}

C17_Witness ==
  \E s \in Slots :
    /\ Truthy(credentials.apiKey)
    /\ calls[s].pc = "done"
    /\ calls[s].tool = UpdateTool
    /\ ~Supplied(calls[s].args, "values")
    /\ ~Supplied(calls[s].args, "setMetadata")
    /\ calls[s].result.isError
    /\ calls[s].sent = <<>>

(***************************************************************************)
(* Failure of the resolution, and the number of requests of a call (Spec). *)
(***************************************************************************)
\* C18: when the describe-index request of a resolution fails (a typed
\* error, or a fetch that rejects, as an aborted one does), the data-plane
\* operation settles with that very failure, its data-plane request is not
\* sent, and the cache is left as it was.
C18_ResolutionFailure ==
  [][\A s \in Slots :
       (/\ calls[s].pc = "awaitDescribe"
        /\ calls'[s].pc # "awaitDescribe"
        /\ ~requestOutcome(calls'[s].resp).ok) =>
         /\ calls'[s].pc = "done"
         /\ calls'[s].result = requestOutcome(calls'[s].resp)
         /\ calls'[s].sent = <<DescribeOf(calls[s])>>
         /\ indexHostCache' = indexHostCache]_vars

C18_Witness ==
  \E s \in Slots :
    /\ calls[s].pc = "done"
    /\ calls[s].op = "upsertVectors"
    /\ calls[s].resp.kind = "response"
    /\ calls[s].resp.status = 404
    /\ calls[s].sent = <<DescribeOf(calls[s])>>
    /\ calls[s].result = Thrown(PineconeApiError(JStr("boom"), 404), TRUE)
    /\ ~CacheHas(indexHostCache, calls[s].key)

\* the requests of call c that went to the control plane, and to a host
ControlRequestsOf(c) ==
  {i \in 1 .. Len(c.sent) : c.sent[i].authority = CONTROL_PLANE_URL}
DataRequestsOf(c) ==
  {i \in 1 .. Len(c.sent) : c.sent[i].authority # CONTROL_PLANE_URL}

\* C20: whatever the responses, a call of a control-plane operation sends
\* at most one request, and a call of a data-plane operation at most one
\* describe-index request and at most one data-plane request.
C20_NoRetry ==
  \A s \in Slots :
    LET c == calls[s]
    IN  /\ c.op \in ControlOps \cup {TestConnection} =>
             /\ Len(c.sent) <= 1
             /\ DataRequestsOf(c) = {}
        /\ c.op \in DataOps =>
             /\ Len(c.sent) <= 2
             /\ Cardinality(ControlRequestsOf(c)) <= 1
             /\ Cardinality(DataRequestsOf(c)) <= 1

C20_Witness ==
  \E s \in Slots :
    /\ calls[s].pc = "done"
    /\ calls[s].op = "queryVectors"
    /\ Len(calls[s].sent) = 2
    /\ calls[s].resp.kind = "response"
    /\ calls[s].resp.status = 429
    /\ calls[s].result.error.name = "RateLimitError"

(***************************************************************************)
(* Properties of the requests the client sends (Spec).                     *)
(***************************************************************************)
\* C21: every request handed to fetch, on the control plane (the
\* describe-index request of a host resolution included) and on the data
\* plane, carries exactly the three headers of getAuthHeaders: Api-Key with
\* the key of the credentials, Content-Type application/json, and
\* X-Pinecone-Api-Version with API_VERSION.
C21_ThreeHeaders ==
  \A s \in Slots :
    \A i \in 1 .. Len(calls[s].sent) :
      LET h == calls[s].sent[i].headers
      IN  /\ DOMAIN h = {"ApiKey", "ContentType", "XPineconeApiVersion"}
          /\ h.ApiKey = credentials.apiKey
          /\ Truthy(h.ApiKey)
          /\ h.ContentType = "application/json"
          /\ h.XPineconeApiVersion = API_VERSION

C21_Witness ==
  \E s \in Slots :
    /\ calls[s].op = "describeIndexStats"
    /\ calls[s].pc = "awaitData"
    /\ Len(calls[s].sent) = 2
    /\ calls[s].sent[1].authority = CONTROL_PLANE_URL
    /\ calls[s].sent[2].authority = HostB
    /\ calls[s].sent[2].headers.ApiKey = JStr("pk-live")

\* C22: the plane of an operation is fixed.  A call of a control-plane
\* operation sends its one request to CONTROL_PLANE_URL, takes no host
\* from the cache and adds or changes no cache entry.  A call of a
\* data-plane operation for index X sends its own request to the host
\* resolved for X (the entry the cache holds for X), never to
\* CONTROL_PLANE_URL; the only request it sends to CONTROL_PLANE_URL is the
\* describe-index request for X.
C22_PlaneRouting ==
  /\ [](\A s \in Slots :
         LET c == calls[s]
         IN  /\ c.op \in ControlOps \cup {TestConnection} =>
                  /\ Len(c.sent) <= 1
                  /\ c.host = JUndefined
                  /\ c.used = "none"
                  /\ \A i \in 1 .. Len(c.sent) :
                       /\ c.sent[i].authority = CONTROL_PLANE_URL
                       /\ c.sent[i].path = PathOf(Target(c.op), c.key)
                       /\ c.sent[i].method = Operations[Target(c.op)].method
             /\ c.op \in DataOps =>
                  \A i \in 1 .. Len(c.sent) :
                    IF c.sent[i].path = Operations[c.op].path
                    THEN /\ c.sent[i].authority # CONTROL_PLANE_URL
                         /\ c.sent[i].authority =
                              TemplateString(CacheGet(indexHostCache, c.key))
                         /\ c.sent[i].key = c.key
                         /\ CacheHas(indexHostCache, c.key)
                    ELSE c.sent[i] = DescribeOf(c))
  /\ [][\A s \in Slots :
          (/\ calls'[s] # calls[s]
           /\ \/ calls[s].op \in ControlOps \cup {TestConnection}
              \/ calls'[s].op \in ControlOps \cup {TestConnection}) =>
            \A k \in Names :
              CacheHas(indexHostCache', k) => indexHostCache'[k] = indexHostCache[k]]_vars

C22_Witness ==
  \E s \in Slots :
    /\ calls[s].pc = "done"
    /\ calls[s].op = "fetchVectors"
    /\ calls[s].key = "a"
    /\ indexHostCache["a"] = JStr(HostA)
    /\ indexHostCache["b"] = JStr(HostB)
    /\ Len(calls[s].sent) = 1
    /\ calls[s].sent[1].authority = HostA
    /\ calls[s].result.ok

\* C23 as stated: whenever fetch rejects, in the request of whatever
\* operation, the call fails with that same rejection.
C23_AsStated ==
  \A s \in Slots :
    (calls[s].pc = "done" /\ calls[s].resp = FetchRejected) =>
      calls[s].result = Thrown(NetworkFailure, FALSE)

\* C23: whenever fetch rejects, in the describe-index request of a host
\* resolution or in the operation's own request, the call of every
\* operation other than testConnection fails with that same rejection, not
\* with a RateLimit, Authentication or API error and not with a value;
\* testConnection returns {connected: false} with the rejection's message.
C23_TransportFailure ==
  \A s \in Slots :
    (calls[s].pc = "done" /\ calls[s].resp = FetchRejected) =>
      IF calls[s].op = TestConnection
      THEN calls[s].result =
             Returned(JObj([connected |-> JBool(FALSE),
                            message |-> NetworkFailure.message]), FALSE)
      ELSE calls[s].result = Thrown(NetworkFailure, FALSE)

C23_Witness ==
  \E s \in Slots :
    /\ calls[s].pc = "done"
    /\ calls[s].op = "upsertVectors"
    /\ Len(calls[s].sent) = 2
    /\ calls[s].resp = FetchRejected
    /\ ~calls[s].result.ok
    /\ calls[s].result.error = NetworkFailure

\* C26: the cache changes in two kinds of step only: the describe-index
\* request of a resolution that found no usable entry succeeds (the entry
\* of that name is set, the others stay), and the request of deleteIndex
\* succeeds (the entry of that name is removed, the others stay).  Every
\* other step leaves the cache as it was: in particular a step of a public
\* describeIndex, createIndex, configureIndex or createIndexFromBackup, and
\* the settling of a data-plane request whatever its outcome.
C26_CacheFrame ==
  [][/\ indexHostCache' # indexHostCache =>
          \E s \in Slots :
            LET c == calls[s]
                out == requestOutcome(calls'[s].resp)
            IN  \/ /\ c.pc = "awaitDescribe"
                   /\ c.op \in DataOps
                   /\ ~CacheHit(indexHostCache, c.key)
                   /\ out.ok
                   /\ indexHostCache' =
                        [k \in Names |-> IF k = c.key THEN Get(out.value, "host")
                                         ELSE indexHostCache[k]]
                \/ /\ c.pc = "awaitControl"
                   /\ c.op = "deleteIndex"
                   /\ out.ok
                   /\ indexHostCache' =
                        [k \in Names |-> IF k = c.key THEN Absent
                                         ELSE indexHostCache[k]]
     /\ \A s \in Slots :
          (/\ calls'[s] # calls[s]
           /\ \/ calls[s].pc = "awaitData"
              \/ calls'[s].op \in {"describeIndex", "createIndex", "configureIndex",
                                   "createIndexFromBackup"}) =>
            indexHostCache' = indexHostCache]_vars

C26_Witness ==
  \E s \in Slots :
    /\ calls[s].pc = "done"
    /\ calls[s].op = "queryVectors"
    /\ calls[s].key = "a"
    /\ Len(calls[s].sent) = 1
    /\ calls[s].resp.kind = "response"
    /\ calls[s].resp.status = 404
    /\ indexHostCache["a"] = JStr(HostA)
    /\ prior["b"] = Deleted

\* C27: testConnection never fails.  It returns connected = true, with
\* the fixed success message, exactly when the listIndexes call it makes
\* completes without error, and otherwise connected = false with the
\* message of the error listIndexes failed with: the missing-key message
\* (and no request sent) without a key, "Rate limit exceeded" on 429, the
\* fixed authentication message on 401 and 403, and the rejection's message
\* when fetch rejects.
C27_TestConnection ==
  \A s \in Slots :
    (calls[s].pc = "done" /\ calls[s].op = TestConnection) =>
      LET c == calls[s]
          listed == IF c.sent = <<>> THEN getAuthHeaders(credentials)
                    ELSE Unwrap("listIndexes", requestOutcome(c.resp))
          connected == Get(c.result.value, "connected")
          message == Get(c.result.value, "message")
      IN  /\ c.result.ok
          /\ connected = JBool(listed.ok)
          /\ listed.ok => message = JStr(ConnectedMessage)
          /\ ~listed.ok => message = listed.error.message
          /\ ~Truthy(credentials.apiKey) =>
               c.sent = <<>> /\ connected = JBool(FALSE) /\ message = JStr(NoKeyMessage)
          /\ c.resp = FetchRejected =>
               connected = JBool(FALSE) /\ message = NetworkFailure.message
          /\ (c.resp.kind = "response" /\ c.resp.status = 429) =>
               connected = JBool(FALSE) /\ message = JStr(RateLimitMessage)
          /\ (c.resp.kind = "response" /\ c.resp.status \in {401, 403}) =>
               connected = JBool(FALSE) /\ message = JStr(AuthFailedMessage)
          /\ connected = JBool(TRUE) =>
               c.resp.kind = "response" /\ ResponseOk(c.resp)

C27_Witness ==
  \E s \in Slots :
    /\ calls[s].pc = "done"
    /\ calls[s].op = TestConnection
    /\ calls[s].resp.kind = "response"
    /\ calls[s].resp.status = 429
    /\ calls[s].result.ok
    /\ Get(calls[s].result.value, "connected") = JBool(FALSE)
    /\ Get(calls[s].result.value, "message") = JStr(RateLimitMessage)

FormDecode(text) ==
  CASE text = "a+b%2Bc%3D" -> "a b+c="
    [] OTHER -> text

\* C25: the /vectors/list request of the list-vector-ids tool carries the
\* caller's page token, which the server reads as the text the caller
\* passed (and no paginationToken parameter when the caller passed none,
\* or the empty string); when the server answers with a page, the client
\* returns that page as it is, and the tool reports the ids of the page's
\* vectors, the page's next token, and hasMore = true exactly when that
\* next token is a non-empty string.
C25_Pagination ==
  \A s \in Slots :
    LET c == calls[s]
    IN  c.tool = ListIdsTool =>
          /\ \A i \in OwnRequests(c) :
               LET token == Get(c.args, "paginationToken")
                   q == c.sent[i].query
               IN  IF token.t = "string" /\ token.v # ""
                   THEN /\ "paginationToken" \in DOMAIN q
                        /\ FormDecode(q["paginationToken"]) = token.v
                   ELSE "paginationToken" \notin DOMAIN q
          /\ (/\ c.pc = "done"
              /\ OwnRequests(c) # {}
              /\ c.resp.kind = "response"
              /\ c.resp.status = 200
              /\ c.resp.body.text \in {BodyPage, BodyLastPage, BodyEmptyNext}) =>
               LET page == JSONParse(c.resp.body.text).value
                   next == OptGet(Get(page, "pagination"), "next")
                   vectors == Get(page, "vectors").v
               IN  /\ c.outcome = Returned(page, TRUE)
                   /\ ~c.result.isError
                   /\ Get(c.result.data, "vectorIds") =
                        JArr([i \in 1 .. Len(vectors) |-> vectors[i].f.id])
                   /\ Get(c.result.data, "nextToken") = next
                   /\ Get(c.result.data, "hasMore") =
                        JBool(next.t = "string" /\ next.v # "")

C25_Witness ==
  \E s \in Slots :
    /\ calls[s].pc = "done"
    /\ calls[s].tool = ListIdsTool
    /\ Get(calls[s].args, "paginationToken") = JStr("a b+c=")
    /\ Len(calls[s].sent) = 2
    /\ calls[s].sent[2].query["paginationToken"] = "a+b%2Bc%3D"
    /\ calls[s].resp = Response(200, HeaderAbsent, BodyOf(BodyPage))
    /\ Get(calls[s].result.data, "vectorIds") = JArr(<<JStr("v1"), JStr("v2")>>)
    /\ Get(calls[s].result.data, "nextToken") = JStr("n1")
    /\ Get(calls[s].result.data, "hasMore") = JBool(TRUE)

\* C29: a tool handler always returns a tool response.  When the client
\* operation it called failed (for want of a key, by a rejected fetch, by
\* a classified HTTP error, during host resolution or afterwards), the
\* response has isError = true and its text carries the message of that
\* error; a response without the error flag is returned only when the
\* client operation succeeded.
C29_NoEscape ==
  \A s \in Slots :
    LET c == calls[s]
    IN  (c.pc = "done" /\ c.tool # NoTool) =>
          /\ DOMAIN c.result \in {{"isError", "error", "message"}, {"isError", "data"}}
          /\ (c.outcome # Pending /\ ~c.outcome.ok) =>
               /\ c.result.isError
               /\ c.result.message.v = "Error: {}"
               /\ c.result.message.arg = c.outcome.error.message
          /\ ~c.result.isError => (c.outcome # Pending /\ c.outcome.ok)
          /\ (c.sent # <<>> /\ c.resp = FetchRejected) =>
               c.result.isError /\ c.result.message.arg = NetworkFailure.message
          /\ (c.sent # <<>> /\ c.resp.kind = "response" /\ c.resp.status = 429) =>
               c.result.isError /\ c.result.message.arg = JStr(RateLimitMessage)
          /\ ~Truthy(credentials.apiKey) =>
               c.result.isError
                 /\ (c.outcome # Pending => c.result.message.arg = JStr(NoKeyMessage))

C29_Witness ==
  \E s \in Slots :
    /\ calls[s].pc = "done"
    /\ calls[s].tool = DeleteIndexTool
    /\ calls[s].key = "a"
    /\ calls[s].resp = Response(404, HeaderAbsent, BodyOf(BodyErrNested))
    /\ calls[s].outcome = Thrown(PineconeApiError(JStr("boom"), 404), TRUE)
    /\ calls[s].result.isError
    /\ calls[s].result.message.arg = JStr("boom")
    /\ CacheHas(indexHostCache, "a")

TenantKeys == {JStr("pk-live"), JStr("pk-other")}
WorkerRequests ==
  {[path |-> p, method |-> m, apiKey |-> a] :
     p \in {"/mcp", "/health", "/sse", "/"}, m \in {"GET", "POST"},
     a \in TenantKeys \cup {JUndefined}}
\* those among them that clients are built for, and the health check
TenantRequests == {q \in WorkerRequests : q.path \in {"/mcp", "/health"}}

\* parseTenantCredentials: the credentials are what the header carries
parseTenantCredentials(request) == [apiKey |-> request.apiKey]

\* validateCredentials returns (TRUE) or throws (FALSE): the key is required
validateCredentials(creds) == Truthy(creds.apiKey)

\* createPineconeClient: new PineconeClientImpl(credentials), whose
\* indexHostCache field is initialised to a new Map
createPineconeClient(creds) ==
  [live |-> TRUE, credentials |-> creds, indexHostCache |-> EmptyCache]

\* createStatelessServer: a server whose tools close over a client of its own
createStatelessServer(creds) == createPineconeClient(creds)

\* the fetch handler builds a server for this request
Accepted(request) ==
  /\ request.path = "/mcp"
  /\ request.method = "POST"
  /\ validateCredentials(parseTenantCredentials(request))

\* the responses of the fetch handler; the response to an accepted POST
\* /mcp is the one the MCP handler of the server built for it returns
HealthResponse == [status |-> 200, body |-> "{status: 'ok', server}"]
UnauthorizedResponse == [status |-> 401, body |-> "{error: 'Unauthorized', ...}"]
SseResponse == [status |-> 501, body |-> "SSE endpoint requires Durable Objects"]
DescriptionResponse == [status |-> 200, body |-> "{name, version, endpoints, tools, ...}"]
McpResponse == [handler |-> "createMcpHandler(server)"]

\* mutation of WorkerResponse: the method of a /mcp request is not checked
WorkerResponseAnyMethod(request) ==
  IF request.path = "/health" THEN HealthResponse
  ELSE IF request.path = "/mcp"
  THEN IF validateCredentials(parseTenantCredentials(request))
       THEN McpResponse
       ELSE UnauthorizedResponse
  ELSE IF request.path = "/sse" THEN SseResponse
  ELSE DescriptionResponse

\* the fetch handler: the response it returns
WorkerResponse(request) ==
  IF request.path = "/health" THEN HealthResponse
  ELSE IF request.path = "/mcp" /\ request.method = "POST"
  THEN IF validateCredentials(parseTenantCredentials(request))
       THEN McpResponse
       ELSE UnauthorizedResponse
  ELSE IF request.path = "/sse" THEN SseResponse
  ELSE DescriptionResponse

\* mutation of WriteCache: the cache is one map shared by every client
WriteCacheShared(insts, i, cache) ==
  [j \in InstanceIds |->
     IF insts[j].live THEN [insts[j] EXCEPT !.indexHostCache = cache] ELSE insts[j]]

\* a write to this.indexHostCache by client i
WriteCache(insts, i, cache) == [insts EXCEPT ![i].indexHostCache = cache]

\* what the Pinecone API answers to the requests of the clients
InstanceResponses == RaceDescriptions \cup {RaceAccepted, RaceRefused}

\* The worker handles a request; i names the client it builds, if any.
Fetch(i, request) ==
  /\ ~instances[i].live
  /\ request \in WorkerRequests
  /\ instances' =
       IF Accepted(request)
       THEN [instances EXCEPT ![i] =
               createStatelessServer(parseTenantCredentials(request))]
       ELSE instances
  /\ handled' = [instance |-> i, kind |-> "request", request |-> request,
                  response |-> WorkerResponse(request)]
  /\ UNCHANGED <<credentials, indexHostCache, calls, prior, stale>>

\* A data-plane operation of client i for index k; r answers the
\* describe-index request that getIndexHost sends on a miss.
InstanceData(i, k, r) ==
  /\ instances[i].live
  /\ LET inst == instances[i]
         out == requestOutcome(r)
     IN  instances' =
           IF \/ CacheHit(inst.indexHostCache, k)
              \/ ~getAuthHeaders(inst.credentials).ok
              \/ ~out.ok
              \/ Throws(out.value)
           THEN instances
           ELSE WriteCache(instances, i,
                           CacheAfterResolve(inst.indexHostCache, k, out.value))
  /\ handled' = [instance |-> i, kind |-> "data"]
  /\ UNCHANGED <<credentials, indexHostCache, calls, prior, stale>>

\* deleteIndex(k) of client i; r answers its request.
InstanceDelete(i, k, r) ==
  /\ instances[i].live
  /\ LET inst == instances[i]
     IN  instances' =
           IF ~getAuthHeaders(inst.credentials).ok THEN instances
           ELSE WriteCache(instances, i,
                           CacheAfterDelete(inst.indexHostCache, k, requestOutcome(r)))
  /\ handled' = [instance |-> i, kind |-> "delete"]
  /\ UNCHANGED <<credentials, indexHostCache, calls, prior, stale>>

\* The request client i was built for is answered; nothing refers to the
\* server and its client any more.
Finish(i) ==
  /\ instances[i].live
  /\ instances' = [instances EXCEPT ![i] = NoInstance]
  /\ handled' = [instance |-> i, kind |-> "finish"]
  /\ UNCHANGED <<credentials, indexHostCache, calls, prior, stale>>

NextInstances ==
  \E i \in InstanceIds :
    \/ \E request \in TenantRequests : Fetch(i, request)
    \/ \E k \in Names : \E r \in InstanceResponses : InstanceData(i, k, r)
    \/ \E k \in Names : \E r \in InstanceResponses : InstanceDelete(i, k, r)
    \/ Finish(i)

SpecInstances == Init /\ [][NextInstances]_vars

\* C19: a step on one client leaves every other client, its cache
\* included, as it was; a client comes into being only by an accepted
\* POST /mcp request, with an empty cache and that request's credentials;
\* and every accepted request builds a client of its own.
C19_Isolation ==
  [][/\ \A j \in InstanceIds :
          j # handled'.instance => instances'[j] = instances[j]
     /\ \A i \in InstanceIds :
          (~instances[i].live /\ instances'[i].live) =>
            /\ handled' = [instance |-> i, kind |-> "request",
                           request |-> handled'.request,
                           response |-> McpResponse]
            /\ handled'.request.path = "/mcp"
            /\ handled'.request.method = "POST"
            /\ instances'[i].indexHostCache = EmptyCache
            /\ instances'[i].credentials = parseTenantCredentials(handled'.request)
     /\ (handled'.kind = "request" /\ Accepted(handled'.request)) =>
          /\ ~instances[handled'.instance].live
          /\ instances'[handled'.instance].live]_vars

C19_Witness ==
  /\ instances[1].live
  /\ instances[2].live
  /\ instances[1].credentials # instances[2].credentials
  /\ instances[1].indexHostCache["a"] = JStr(HostA)
  /\ instances[2].indexHostCache = EmptyCache
  /\ handled = [instance |-> 1, kind |-> "data"]

(***************************************************************************)
(* SpecWorker: the fetch handler answering requests of every path and      *)
(* method, and the clients it builds calling out.                          *)
(***************************************************************************)
NextWorker ==
  \E i \in InstanceIds :
    \/ \E request \in WorkerRequests : Fetch(i, request)
    \/ \E r \in InstanceResponses : InstanceData(i, "a", r)
    \/ Finish(i)

SpecWorker == Init /\ [][NextWorker]_vars

\* C28: the worker builds a server and client exactly for a POST /mcp
\* request whose credentials pass validation, and the handler of that
\* server answers it; a POST /mcp request without credentials is answered
\* 401 and nothing is built; /health is answered with status ok whatever
\* the method and the credentials; /sse is answered 501; every other
\* request, a /mcp request with another method included, is answered with
\* the static description; none of these builds anything.  Only a client
\* that was built calls out.
C28_WorkerRouting ==
  [][/\ handled'.kind = "request" =>
          LET q == handled'.request
              i == handled'.instance
              post == q.path = "/mcp" /\ q.method = "POST"
              built == ~instances[i].live /\ instances'[i].live
          IN  /\ built <=> (post /\ Truthy(q.apiKey))
              /\ ~built => instances' = instances
              /\ built => handled'.response = McpResponse
              /\ q.path = "/health" => handled'.response = HealthResponse
              /\ (post /\ ~Truthy(q.apiKey)) =>
                   handled'.response = UnauthorizedResponse
              /\ q.path = "/sse" => handled'.response = SseResponse
              /\ (q.path \notin {"/health", "/sse"} /\ ~post) =>
                   handled'.response = DescriptionResponse
     /\ handled'.kind = "data" => instances[handled'.instance].live]_vars

C28_Witness ==
  /\ handled.kind = "request"
  /\ handled.request = [path |-> "/mcp", method |-> "GET", apiKey |-> JStr("pk-live")]
  /\ handled.response = DescriptionResponse
  /\ handled.instance = 2
  /\ ~instances[2].live
  /\ instances[1].live
  /\ instances[1].indexHostCache["a"] = JStr(HostA)

====
